---- MODULE Spec2Model ----
(***************************************************************************)
(* Model of the final participant filtering of the journaling study        *)
(* pipeline: src/preprocessing/filter_by_status.py followed by             *)
(* src/preprocessing/final_filter.py (apply_final_filters, main,           *)
(* filter_journals_and_utterances).                                        *)
(*                                                                         *)
(* A table (pandas DataFrame / CSV file) is a sequence of rows; a row is a *)
(* record with one field per column.  A missing cell is NaN for a numeric  *)
(* column, "NaN" for a label column and the empty text for a text column   *)
(* (read_csv turns an empty field into a missing value).                   *)
(***************************************************************************)
EXTENDS Integers, Sequences, FiniteSets, TLC

VARIABLES mode, input, config, outcomeFile, fs, pc, df, df_participant, out, prev

(* QuestionnaireCompletion.scoring_questionnaires *)
VARIABLES survey, totals_df, pair, spc

(* SuspiciousUsersChecks.has_consecutive_answers *)
VARIABLES series, threshold, idx, count, last_answer, hpc, flagged

filterVars == <<mode, input, config, outcomeFile, fs, pc, df, df_participant, out, prev>>

surveyVars == <<survey, totals_df, pair, spc>>

runVars == <<series, threshold, idx, count, last_answer, hpc, flagged>>

(* SuspiciousUsersChecks.flag_consecutive_answers *)
VARIABLES merged_df, suspicious_df, consecutive_threshold, at, log

flagVars == <<merged_df, suspicious_df, consecutive_threshold, at, log>>

(* preprocess_entries.preprocess_data *)
VARIABLES dfu, dfj, dfs, dfujs, mpc

mergeVars == <<dfu, dfj, dfs, dfujs, mpc>>

(* the preprocessing scripts: the files they read and write, what they   *)
(* print, and the position and local variables of the running script     *)
VARIABLES files, stdout, proc

scriptVars == <<files, stdout, proc>>

(* the variables of the operations modelled further down *)
otherVars == <<flagVars, mergeVars, scriptVars>>

vars == <<filterVars, surveyVars, runVars, otherVars>>

(* the variables of an operation that is not running *)
FilterIdle ==
    /\ mode = "off" /\ input = <<>> /\ config = <<>> /\ outcomeFile = <<>> /\ fs = <<>>
    /\ pc = "off" /\ df = <<>> /\ df_participant = <<>> /\ out = <<>> /\ prev = <<>>

SurveyIdle == survey = <<>> /\ totals_df = <<>> /\ pair = 0 /\ spc = "off"

RunIdle ==
    /\ series = <<>> /\ threshold = 0 /\ idx = 0 /\ count = 0
    /\ last_answer = 0 /\ hpc = "off" /\ flagged = FALSE

FlagIdle ==
    /\ merged_df = <<>> /\ suspicious_df = <<>> /\ consecutive_threshold = 0
    /\ at = <<>> /\ log = <<>>

MergeIdle == dfu = <<>> /\ dfj = <<>> /\ dfs = <<>> /\ dfujs = <<>> /\ mpc = "off"

ScriptIdle == files = <<>> /\ stdout = <<>> /\ proc = <<>>

(* every operation modelled further down is idle, except the named one *)
OthersIdle(own) ==
    /\ IF own = "flag" THEN TRUE ELSE FlagIdle
    /\ IF own = "merge" THEN TRUE ELSE MergeIdle
    /\ IF own = "script" THEN TRUE ELSE ScriptIdle

OtherIdle == OthersIdle("none")

----------------------------------------------------------------------------
(* Missing values *)

NaN == -1000

NaS == "NaN"

NoText == <<>>

NumCols == {"B_WEMWBS_Total", "E_WEMWBS_Total", "B_GAD7_Total", "E_GAD7_Total",
            "B_PHQ9_Total", "E_PHQ9_Total", "JournalUniqueID", "EntryCount",
            "WordCount", "Change_WEMWBS", "Change_GAD7", "Change_PHQ9"}

TextCols == {"JournalAnonymised"}

LabelCols == {"ParticipantID", "Type", "StudyGroup", "StudyOutcome"}

Columns == NumCols \cup TextCols \cup LabelCols

NaOf(c) == IF c \in NumCols THEN NaN ELSE IF c \in TextCols THEN NoText ELSE NaS

IsNa(row, c) == row[c] = NaOf(c)

----------------------------------------------------------------------------
(* FinalFilterConfig *)

required_cols == {"B_WEMWBS_Total", "E_WEMWBS_Total", "B_GAD7_Total",
                  "E_GAD7_Total", "B_PHQ9_Total", "E_PHQ9_Total"}

DefaultMinWordCount == 4

DefaultMinEntries == 6

NoExclude == "None"

FinalFilterConfig == [enforce_nonzero_wemwbs |-> TRUE,
                      min_word_count |-> DefaultMinWordCount,
                      exclude_type |-> "Summary",
                      min_entries_per_participant |-> DefaultMinEntries,
                      eligible_only |-> TRUE]

KeptOutcomes == {"Eligible", "Insufficient"}

----------------------------------------------------------------------------
(* Series.str.split().str.len(): python's str.split() with no separator    *)
(* cuts at runs of whitespace and yields no empty token.                   *)

RECURSIVE SplitScan(_, _, _, _)
SplitScan(s, i, cur, acc) ==
    IF i > Len(s)
    THEN IF cur = <<>> THEN acc ELSE Append(acc, cur)
    ELSE IF s[i] = " "
         THEN SplitScan(s, i + 1, <<>>, IF cur = <<>> THEN acc ELSE Append(acc, cur))
         ELSE SplitScan(s, i + 1, Append(cur, s[i]), acc)

StrSplit(s) == SplitScan(s, 1, <<>>, <<>>)

WordCountOf(text) == IF text = NoText THEN NaN ELSE Len(StrSplit(text))

----------------------------------------------------------------------------
(* The study's participants.  Survey totals are merged onto the entries by *)
(* ParticipantID (merge_qual_with_anon_jours.py), so every row of a        *)
(* participant carries the same totals and study group.                    *)

PidOrder == <<"P1", "P2", "P3", "P4", "P5", "P6", "P7">>

Pids == {PidOrder[i] : i \in DOMAIN PidOrder}

Totals(bw, ew, bg, eg, bp, ep) ==
    [B_WEMWBS_Total |-> bw, E_WEMWBS_Total |-> ew, B_GAD7_Total |-> bg,
     E_GAD7_Total |-> eg, B_PHQ9_Total |-> bp, E_PHQ9_Total |-> ep]

TotalsOf(p) ==
    CASE p = "P1" -> Totals(40, 45, 10, 7, 12, 8)
      [] p = "P2" -> Totals(50, 48, 3, 0, 5, 9)
      [] p = "P3" -> Totals(35, 35, 8, 8, 6, 6)
      [] p = "P4" -> Totals(42, 40, 9, 11, 7, 7)
      [] p = "P5" -> Totals(0, 44, 6, 5, 4, 3)
      [] p = "P6" -> Totals(44, 0, 6, 5, 4, 3)
      [] p = "P7" -> Totals(38, 41, 7, 6, 10, NaN)

GroupOf(p) == IF p \in {"P1", "P4", "P7"} THEN "A" ELSE IF p \in {"P2", "P5"} THEN "B" ELSE "C"

(* config/study_outcome_by_pid.json as the roster system exports it: P4    *)
(* has no entry.                                                           *)
OutcomeDoc ==
    [p \in Pids \ {"P4"} |->
        IF p = "P2" THEN "Insufficient" ELSE IF p = "P3" THEN "Fraudulent" ELSE "Eligible"]

EmptyDoc == [p \in {} |-> NaS]

OutcomeFiles == {[exists |-> FALSE, doc |-> EmptyDoc],
                 [exists |-> TRUE, doc |-> EmptyDoc],
                 [exists |-> TRUE, doc |-> OutcomeDoc]}

----------------------------------------------------------------------------
(* Entries.  A kind fixes the entry-level cells of a row.                  *)

W == "w"

S == " "

TextOf(kind) ==
    CASE kind = "Good" -> <<W, S, W, S, W, S, W>>
      [] kind = "Short" -> <<S, W, S, S, W, S, W, S>>
      [] kind = "Summary" -> <<W, S, W, S, W, S, W, S, W>>
      [] kind = "SummaryShort" -> <<W>>
      [] kind = "NoContent" -> NoText
      [] kind = "NoType" -> <<W, S, S, W, S, W, S, W>>

TypeOf(kind) ==
    IF kind \in {"Summary", "SummaryShort"} THEN "Summary"
    ELSE IF kind = "NoType" THEN NaS ELSE "Entry"

Kinds == {"Good", "Short", "Summary", "SummaryShort", "NoContent", "NoType"}

(* The row of 8_qual_jour_merged_anon.csv at position i: preprocess_data   *)
(* sets EntryCount to 1 on journal entries and leaves it missing on        *)
(* summaries; the columns computed later start missing.                    *)
MkRow(i, e) ==
    [ParticipantID |-> e.pid, JournalUniqueID |-> i, Type |-> TypeOf(e.kind),
     JournalAnonymised |-> TextOf(e.kind),
     EntryCount |-> IF TypeOf(e.kind) = "Summary" THEN NaN ELSE 1,
     StudyGroup |-> GroupOf(e.pid),
     B_WEMWBS_Total |-> TotalsOf(e.pid).B_WEMWBS_Total,
     E_WEMWBS_Total |-> TotalsOf(e.pid).E_WEMWBS_Total,
     B_GAD7_Total |-> TotalsOf(e.pid).B_GAD7_Total,
     E_GAD7_Total |-> TotalsOf(e.pid).E_GAD7_Total,
     B_PHQ9_Total |-> TotalsOf(e.pid).B_PHQ9_Total,
     E_PHQ9_Total |-> TotalsOf(e.pid).E_PHQ9_Total,
     WordCount |-> NaN, StudyOutcome |-> NaS,
     Change_WEMWBS |-> NaN, Change_GAD7 |-> NaN, Change_PHQ9 |-> NaN]

MkTable(es) == [i \in 1..Len(es) |-> MkRow(i, es[i])]

(* Bounded input tables: a run of up to MaxRun ordinary entries of one     *)
(* participant, with at most one further entry of any kind before or after *)
(* the run.                                                                *)
MaxRun == 6

OddPids == {"P1", "P2"}

Run(p, g) == [i \in 1..g |-> [pid |-> p, kind |-> "Good"]]

Runs == {Run(p, g) : p \in Pids, g \in 0..MaxRun}

OddEntries == {<<[pid |-> p, kind |-> k]>> : p \in OddPids, k \in Kinds}

(* ... or the runs of two participants, one after the other.              *)
InputTables ==
    {MkTable(r) : r \in Runs}
    \cup {MkTable(o \o r) : o \in OddEntries, r \in Runs}
    \cup {MkTable(r \o o) : o \in OddEntries, r \in Runs}
    \cup {MkTable(Run("P1", g) \o Run(q, h)) : q \in Pids \ {"P1"}, g \in 1..MaxRun, h \in 1..MaxRun}

Configs ==
    {FinalFilterConfig,
     [FinalFilterConfig EXCEPT !.enforce_nonzero_wemwbs = FALSE],
     [FinalFilterConfig EXCEPT !.exclude_type = NoExclude],
     [FinalFilterConfig EXCEPT !.eligible_only = FALSE],
     [FinalFilterConfig EXCEPT !.min_entries_per_participant = 1]}

----------------------------------------------------------------------------
(* Files of data/processed, by their number.                               *)

FileNames == {"8", "10", "11", "12", "13", "14", "15"}

Absent == [exists |-> FALSE, rows |-> <<>>]

File(tbl) == [exists |-> TRUE, rows |-> tbl]

(* the files final_filter.py writes *)
Outputs == {"13", "14", "15"}

(* an output file left by an earlier run over other data *)
Stale == File(MkTable(<<[pid |-> "P4", kind |-> "Good"]>>))

(* tokenize_sentences.py: the utterance table holds the sentences of the   *)
(* entries whose anonymised content is present; each text here is one      *)
(* sentence.                                                               *)
UtterancesOf(tbl) == SelectSeq(tbl, LAMBDA r : ~IsNa(r, "JournalAnonymised"))

Say(line, n, removed) == [line |-> line, n |-> n, removed |-> removed]

----------------------------------------------------------------------------
(* Table helpers (pandas)                                                  *)

PidsIn(tbl) == {tbl[i].ParticipantID : i \in DOMAIN tbl} \ {NaS}

nunique(tbl) == Cardinality(PidsIn(tbl))

GroupRows(tbl, p) == SelectSeq(tbl, LAMBDA r : r.ParticipantID = p)

(* sorted group keys, as groupby(...) orders them *)
GroupKeys(tbl) == SelectSeq(PidOrder, LAMBDA p : p \in PidsIn(tbl))

(* GroupBy.first(): per column, the first value of the group that is not   *)
(* missing.                                                                *)
FirstValid(rows, c) ==
    IF \E i \in DOMAIN rows : ~IsNa(rows[i], c)
    THEN rows[CHOOSE i \in DOMAIN rows :
                 /\ ~IsNa(rows[i], c)
                 /\ \A j \in 1..(i - 1) : IsNa(rows[j], c)][c]
    ELSE NaOf(c)

(* faulty variant: the table is passed on without the reduction *)
GroupFirst_AllRows(tbl) == [k \in 1..Len(tbl) |-> [c \in Columns |-> tbl[k][c]]]

GroupFirst(tbl) ==
    [k \in 1..Len(GroupKeys(tbl)) |->
        [c \in Columns |-> FirstValid(GroupRows(tbl, GroupKeys(tbl)[k]), c)]]

(* Series.isin(ids) on the ParticipantID column *)
IsinPids(tbl, ids) == SelectSeq(tbl, LAMBDA r : r.ParticipantID \in ids)

(* ParticipantID.map(doc): missing where the document has no entry *)
MapOutcome(doc, p) == IF p \in DOMAIN doc THEN doc[p] ELSE NaS

(* read_csv types a column holding no value at all as float64, and the     *)
(* .str accessor exists only on text columns.                              *)
HasStrAccessor(tbl) ==
    \/ tbl = <<>>
    \/ \E i \in DOMAIN tbl : ~IsNa(tbl[i], "JournalAnonymised")

----------------------------------------------------------------------------
(* The stages of apply_final_filters as table transformations              *)

(* The table apply_final_filters was handed: main reads it from file 11.   *)
Loaded == IF mode = "pipeline" THEN fs["11"].rows ELSE input

(* faulty variant: only the baseline totals are required *)
DropMissingMH_BaselineOnly(tbl) ==
    SelectSeq(tbl, LAMBDA r :
        \A c \in {"B_WEMWBS_Total", "B_GAD7_Total", "B_PHQ9_Total"} : ~IsNa(r, c))

DropMissingMH(tbl) ==
    SelectSeq(tbl, LAMBDA r : \A c \in required_cols : ~IsNa(r, c))

(* faulty variant: the exit total is not looked at *)
DropZeroWemwbs_BaselineOnly(tbl) == SelectSeq(tbl, LAMBDA r : r.B_WEMWBS_Total # 0)

DropZeroWemwbs(tbl) ==
    SelectSeq(tbl, LAMBDA r : r.B_WEMWBS_Total # 0 /\ r.E_WEMWBS_Total # 0)

WithWordCount(tbl) ==
    [i \in 1..Len(tbl) |->
        [tbl[i] EXCEPT !.WordCount = WordCountOf(tbl[i].JournalAnonymised)]]

(* faulty variant: strictly more than min_word_count words *)
KeepLongEnough_Strict(tbl, cfg) ==
    SelectSeq(tbl, LAMBDA r : r.WordCount # NaN /\ r.WordCount > cfg.min_word_count)

KeepLongEnough(tbl, cfg) ==
    SelectSeq(tbl, LAMBDA r : r.WordCount # NaN /\ r.WordCount >= cfg.min_word_count)

DropType(tbl, cfg) == SelectSeq(tbl, LAMBDA r : r.Type # cfg.exclude_type)

RECURSIVE SumEntryCount(_, _)
SumEntryCount(rows, i) ==
    IF i > Len(rows) THEN 0
    ELSE (IF IsNa(rows[i], "EntryCount") THEN 0 ELSE rows[i].EntryCount)
         + SumEntryCount(rows, i + 1)

(* faulty variant: the EntryCount column the input carries is summed per   *)
(* participant instead of counting the rows                                *)
WithEntryCount_SumColumn(tbl) ==
    [i \in 1..Len(tbl) |->
        [tbl[i] EXCEPT !.EntryCount =
            SumEntryCount(GroupRows(tbl, tbl[i].ParticipantID), 1)]]

(* faulty variant: the count is taken over the unfiltered table *)
WithEntryCount_Unfiltered(tbl) ==
    [i \in 1..Len(tbl) |->
        [tbl[i] EXCEPT !.EntryCount = Len(GroupRows(Loaded, tbl[i].ParticipantID))]]

WithEntryCount(tbl) ==
    [i \in 1..Len(tbl) |->
        [tbl[i] EXCEPT !.EntryCount = Len(GroupRows(tbl, tbl[i].ParticipantID))]]

(* faulty variant: strictly more than min_entries_per_participant *)
KeepActive_Strict(tbl, cfg) ==
    SelectSeq(tbl, LAMBDA r : r.EntryCount > cfg.min_entries_per_participant)

KeepActive(tbl, cfg) ==
    SelectSeq(tbl, LAMBDA r : r.EntryCount >= cfg.min_entries_per_participant)

WithOutcome(tbl, doc) ==
    [i \in 1..Len(tbl) |->
        [tbl[i] EXCEPT !.StudyOutcome = MapOutcome(doc, tbl[i].ParticipantID)]]

(* faulty variant: a deny-list of the fraudulent instead of the allow-list *)
KeepEligible_NotFraudulent(tbl) == SelectSeq(tbl, LAMBDA r : r.StudyOutcome # "Fraudulent")

KeepEligible(tbl) == SelectSeq(tbl, LAMBDA r : r.StudyOutcome \in KeptOutcomes)

(* load_study_outcomes: the document, or {} when the file is absent *)
load_study_outcomes == IF outcomeFile.exists THEN outcomeFile.doc ELSE EmptyDoc

(* faulty variant: the mapping is used even when it is empty *)
HasOutcomeData_Always(doc) == TRUE

(* line 114, "if study_outcomes:": an empty mapping is falsy *)
HasOutcomeData(doc) == DOMAIN doc # {}

(* faulty variant: the summaries are filtered out again *)
FilterToParticipants_NoSummary(tbl, ids) ==
    SelectSeq(IsinPids(tbl, ids), LAMBDA r : r.Type # "Summary")

(* lines 155 and 176: the rows whose ParticipantID is in the final list *)
FilterToParticipants(tbl, ids) == IsinPids(tbl, ids)

(* faulty variant: baseline minus exit *)
WithChange_Reversed(tbl) ==
    [i \in 1..Len(tbl) |->
        [tbl[i] EXCEPT !.Change_WEMWBS = tbl[i].B_WEMWBS_Total - tbl[i].E_WEMWBS_Total,
                       !.Change_GAD7 = tbl[i].B_GAD7_Total - tbl[i].E_GAD7_Total,
                       !.Change_PHQ9 = tbl[i].B_PHQ9_Total - tbl[i].E_PHQ9_Total]]

WithChange(tbl) ==
    [i \in 1..Len(tbl) |->
        [tbl[i] EXCEPT !.Change_WEMWBS = tbl[i].E_WEMWBS_Total - tbl[i].B_WEMWBS_Total,
                       !.Change_GAD7 = tbl[i].E_GAD7_Total - tbl[i].B_GAD7_Total,
                       !.Change_PHQ9 = tbl[i].E_PHQ9_Total - tbl[i].B_PHQ9_Total]]

----------------------------------------------------------------------------
(* State machine                                                           *)

Init ==
    /\ input \in InputTables
    /\ outcomeFile \in OutcomeFiles
    /\ mode \in {"library", "pipeline"}
    /\ IF mode = "library"
       THEN /\ config \in Configs
            /\ pc = "call"
            /\ fs = [f \in FileNames |-> Absent]
       ELSE /\ config = FinalFilterConfig
            /\ pc = "idle"
            /\ \E old \in {Absent, Stale} :
                  fs = [f \in FileNames |->
                           IF f = "8" THEN File(input)
                           ELSE IF f = "10" THEN File(UtterancesOf(input))
                           ELSE IF f \in Outputs THEN old ELSE Absent]
    /\ df = <<>>
    /\ df_participant = <<>>
    /\ out = <<>>
    /\ prev = <<>>
    /\ SurveyIdle
    /\ RunIdle
    /\ OtherIdle

(* An uncaught exception: the function does not return; a script exits.   *)
Raise(err) ==
    /\ pc' = IF mode = "pipeline" THEN "idle" ELSE "raised"
    /\ out' = Append(out, Say(err, 0, 0))
    /\ df' = <<>>
    /\ df_participant' = <<>>

(* filter_by_status.py, the last script of _main.py's SCRIPTS *)
FilterByStatus ==
    /\ pc = "idle"
    /\ mode = "pipeline"
    /\ IF ~outcomeFile.exists
       THEN /\ out' = <<Say("FileNotFoundError", 0, 0)>>
            /\ UNCHANGED fs
       ELSE LET keep == {p \in Pids : MapOutcome(outcomeFile.doc, p) \in KeptOutcomes}
                j == IsinPids(fs["8"].rows, keep)
                u == IsinPids(fs["10"].rows, keep)
            IN  /\ fs' = [fs EXCEPT !["11"] = File(j), !["12"] = File(u)]
                /\ out' = <<Say("Included count", nunique(j), 0),
                            Say("Included count", nunique(u), 0)>>
    /\ UNCHANGED <<surveyVars, runVars, otherVars, prev, mode, input, config, outcomeFile, pc, df, df_participant>>

(* apply_final_filters(df, config) called by a library user: lines 71-75 *)
Call ==
    /\ pc = "call"
    /\ df' = input
    /\ out' = <<Say("Initial dataset", Len(input), 0)>>
    /\ pc' = "s1"
    /\ UNCHANGED <<surveyVars, runVars, otherVars, prev, mode, input, config, outcomeFile, fs, df_participant>>

(* faulty variant: the input file is read without the existence check *)
MainStart_NoCheck ==
    /\ pc = "idle"
    /\ mode = "pipeline"
    /\ df' = fs["11"].rows
    /\ out' = <<Say("Loading dataset", 0, 0),
                Say("Initial dataset", Len(fs["11"].rows), 0)>>
    /\ pc' = "s1"
    /\ UNCHANGED <<surveyVars, runVars, otherVars, prev, mode, input, config, outcomeFile, fs, df_participant>>

(* main, lines 190-208, up to the first stage of apply_final_filters *)
MainStart ==
    /\ pc = "idle"
    /\ mode = "pipeline"
    /\ IF ~fs["11"].exists
       THEN /\ out' = <<Say("Input file not found", 0, 0)>>
            /\ UNCHANGED <<pc, df>>
       ELSE /\ df' = fs["11"].rows
            /\ out' = <<Say("Loading dataset", 0, 0),
                        Say("Initial dataset", Len(fs["11"].rows), 0)>>
            /\ pc' = "s1"
    /\ UNCHANGED <<surveyVars, runVars, otherVars, prev, mode, input, config, outcomeFile, fs, df_participant>>

Step1 ==
    /\ pc = "s1"
    /\ df' = DropMissingMH(df)
    /\ out' = Append(out, Say("After removing missing mental health data",
                              Len(df'), Len(df) - Len(df')))
    /\ pc' = "s2"
    /\ UNCHANGED <<surveyVars, runVars, otherVars, prev, mode, input, config, outcomeFile, fs, df_participant>>

Step2 ==
    /\ pc = "s2"
    /\ IF config.enforce_nonzero_wemwbs
       THEN /\ df' = DropZeroWemwbs(df)
            /\ out' = Append(out, Say("After removing zero WEMWBS scores",
                                      Len(df'), Len(df) - Len(df')))
       ELSE UNCHANGED <<df, out>>
    /\ pc' = "s3"
    /\ UNCHANGED <<surveyVars, runVars, otherVars, prev, mode, input, config, outcomeFile, fs, df_participant>>

(* faulty variant: the number removed is taken against the count after     *)
(* stage 1 (entries_after_mh) instead of the count after stage 2           *)
Step3_DeltaFromStage1 ==
    /\ pc = "s3"
    /\ IF ~HasStrAccessor(Loaded)
       THEN Raise("AttributeError")
       ELSE LET mh == out[CHOOSE k \in DOMAIN out :
                            out[k].line = "After removing missing mental health data"].n
            IN  /\ df' = KeepLongEnough(WithWordCount(df), config)
                /\ out' = Append(out, Say("After filtering entries with too few words",
                                          Len(df'), mh - Len(df')))
                /\ pc' = "s4"
                /\ UNCHANGED df_participant
    /\ UNCHANGED <<surveyVars, runVars, otherVars, prev, mode, input, config, outcomeFile, fs>>

(* Lines 89-93.  The print of line 93 reads entries_after_zero, which only *)
(* stage 2 assigns.                                                        *)
Step3 ==
    /\ pc = "s3"
    /\ IF ~HasStrAccessor(Loaded)
       THEN Raise("AttributeError")
       ELSE IF ~config.enforce_nonzero_wemwbs
       THEN Raise("UnboundLocalError")
       ELSE /\ df' = KeepLongEnough(WithWordCount(df), config)
            /\ out' = Append(out, Say("After filtering entries with too few words",
                                      Len(df'), Len(df) - Len(df')))
            /\ pc' = "s4"
            /\ UNCHANGED df_participant
    /\ UNCHANGED <<surveyVars, runVars, otherVars, prev, mode, input, config, outcomeFile, fs>>

(* faulty variant: control passes over stage 4 *)
Step4_Skipped ==
    /\ pc = "s4"
    /\ pc' = "s5"
    /\ UNCHANGED <<surveyVars, runVars, otherVars, prev, mode, input, config, outcomeFile, fs, df, df_participant, out>>

Step4 ==
    /\ pc = "s4"
    /\ IF config.exclude_type # NoExclude
       THEN /\ df' = DropType(df, config)
            /\ out' = Append(out, Say("After excluding entries of the type",
                                      Len(df'), Len(df) - Len(df')))
       ELSE UNCHANGED <<df, out>>
    /\ pc' = "s5"
    /\ UNCHANGED <<surveyVars, runVars, otherVars, prev, mode, input, config, outcomeFile, fs, df_participant>>

(* faulty variant: control passes over stage 5 *)
Step5_Skipped ==
    /\ pc = "s5"
    /\ pc' = "s6"
    /\ UNCHANGED <<surveyVars, runVars, otherVars, prev, mode, input, config, outcomeFile, fs, df, df_participant, out>>

Step5 ==
    /\ pc = "s5"
    /\ df' = KeepActive(WithEntryCount(df), config)
    /\ out' = Append(out, Say("After requiring the minimum entries per participant",
                              nunique(df'), nunique(df) - nunique(df')))
    /\ pc' = "s6"
    /\ UNCHANGED <<surveyVars, runVars, otherVars, prev, mode, input, config, outcomeFile, fs, df_participant>>

Step6 ==
    /\ pc = "s6"
    /\ df_participant' = GroupFirst(df)
    /\ pc' = "s7"
    /\ UNCHANGED <<surveyVars, runVars, otherVars, prev, mode, input, config, outcomeFile, fs, df, out>>

(* Lines 111-138: stage 7, the closing prints and the return *)
Step7 ==
    /\ pc = "s7"
    /\ LET final == Say("Final participant-level dataset", Len(df_participant'), 0)
       IN
       IF config.eligible_only
       THEN LET warned == IF outcomeFile.exists THEN out
                          ELSE Append(out, Say("Study outcome file not found", 0, 0))
            IN  IF HasOutcomeData(load_study_outcomes)
                THEN /\ df_participant' =
                            KeepEligible(WithOutcome(df_participant, load_study_outcomes))
                     /\ out' = warned \o
                            <<Say("After removing fraudulent participants",
                                  Len(df_participant'),
                                  Len(df_participant) - Len(df_participant'))>> \o
                            (IF Len(df_participant') < Len(df_participant)
                             THEN <<Say("Breakdown of excluded participants",
                                        Cardinality({p \in PidsIn(df) \cap DOMAIN load_study_outcomes :
                                                        load_study_outcomes[p] \notin KeptOutcomes}),
                                        0)>>
                             ELSE <<>>) \o
                            <<final>>
                ELSE /\ df_participant' = df_participant
                     /\ out' = warned \o
                            <<Say("No study outcome data available - skipping fraud filtering",
                                  0, 0),
                              final>>
       ELSE /\ df_participant' = df_participant
            /\ out' = Append(out, final)
    /\ pc' = "ret"
    /\ UNCHANGED <<surveyVars, runVars, otherVars, prev, mode, input, config, outcomeFile, fs, df>>

(* The caller computes the change scores on the returned table as main    *)
(* does and hands the result to apply_final_filters again, with the same   *)
(* configuration and outcome file.                                         *)
Rerun ==
    /\ pc = "ret"
    /\ mode = "library"
    /\ prev' = WithChange(df_participant)
    /\ mode' = "rerun"
    /\ input' = prev'
    /\ df' = prev'
    /\ df_participant' = <<>>
    /\ out' = <<Say("Initial dataset", Len(prev'), 0)>>
    /\ pc' = "s1"
    /\ UNCHANGED <<surveyVars, runVars, otherVars, config, outcomeFile, fs>>

(* main, lines 210-234: change scores and the participant file *)
MainSave ==
    /\ pc = "ret"
    /\ mode = "pipeline"
    /\ df_participant' = WithChange(df_participant)
    /\ fs' = [fs EXCEPT !["13"] = File(df_participant')]
    /\ out' = Append(out, Say("Final filtered participants saved", Len(df_participant'), 0))
    /\ pc' = "fju"
    /\ UNCHANGED <<surveyVars, runVars, otherVars, prev, mode, input, config, outcomeFile, df>>

(* filter_journals_and_utterances(filtered_participant_ids), then main and *)
(* the script end.                                                         *)
FilterJournalsAndUtterances ==
    /\ pc = "fju"
    /\ LET filtered_participant_ids ==
               {df_participant[i].ParticipantID : i \in DOMAIN df_participant}
           j == FilterToParticipants(fs["11"].rows, filtered_participant_ids)
           u == FilterToParticipants(fs["12"].rows, filtered_participant_ids)
           withJ == IF fs["11"].exists THEN [fs EXCEPT !["14"] = File(j)] ELSE fs
           sayJ == IF fs["11"].exists
                   THEN Say("Journal entries", Len(j), Len(fs["11"].rows) - Len(j))
                   ELSE Say("Journals file not found", 0, 0)
           sayU == IF fs["12"].exists
                   THEN Say("Utterance entries", Len(u), Len(fs["12"].rows) - Len(u))
                   ELSE Say("Utterances file not found", 0, 0)
       IN  /\ fs' = IF fs["12"].exists THEN [withJ EXCEPT !["15"] = File(u)] ELSE withJ
           /\ out' = out \o <<sayJ, sayU>>
    /\ pc' = "idle"
    /\ df' = <<>>
    /\ df_participant' = <<>>
    /\ UNCHANGED <<surveyVars, runVars, otherVars, prev, mode, input, config, outcomeFile>>

Next ==
    \/ FilterByStatus
    \/ Call
    \/ MainStart
    \/ Step1
    \/ Step2
    \/ Step3
    \/ Step4
    \/ Step5
    \/ Step6
    \/ Step7
    \/ Rerun
    \/ MainSave
    \/ FilterJournalsAndUtterances

Spec == Init /\ [][Next]_vars

----------------------------------------------------------------------------
(* Properties.  They are stated over the table the function was handed     *)
(* (Loaded) and the configuration, independently of the stage operators.   *)

Returned == pc = "ret"

OutPids == {df_participant[i].ParticipantID : i \in DOMAIN df_participant}

(* number of maximal runs of non-blank characters *)
TokenCount(text) ==
    Cardinality({i \in DOMAIN text : text[i] # " " /\ (i = 1 \/ text[i - 1] = " ")})

TotalsPresent(r) == \A c \in required_cols : r[c] # NaN

ZeroWemwbs(r) == r.B_WEMWBS_Total = 0 \/ r.E_WEMWBS_Total = 0

PassesStages12(r, cfg) ==
    /\ TotalsPresent(r)
    /\ cfg.enforce_nonzero_wemwbs => ~ZeroWemwbs(r)

Qualifies(r, cfg) ==
    /\ PassesStages12(r, cfg)
    /\ TokenCount(r.JournalAnonymised) >= cfg.min_word_count
    /\ cfg.exclude_type # NoExclude => r.Type # cfg.exclude_type

RowsOf(p) == {j \in DOMAIN Loaded : Loaded[j].ParticipantID = p}

QualCountUnder(p, cfg) == Cardinality({j \in RowsOf(p) : Qualifies(Loaded[j], cfg)})

QualCount(p) == QualCountUnder(p, config)

Stage7Keeps(p) ==
    \/ ~config.eligible_only
    \/ ~outcomeFile.exists
    \/ DOMAIN outcomeFile.doc = {}
    \/ p \in DOMAIN outcomeFile.doc /\ outcomeFile.doc[p] \in {"Eligible", "Insufficient"}

InDf(id) == \E i \in DOMAIN df : df[i].JournalUniqueID = id

(* C1: every row of the participant-level table returned by                *)
(* apply_final_filters has all six required totals present, and a          *)
(* participant whose input rows all miss one of them is not in the output. *)
C1_TotalsPresent ==
    Returned =>
        /\ \A i \in DOMAIN df_participant : TotalsPresent(df_participant[i])
        /\ \A p \in OutPids : \E j \in RowsOf(p) : TotalsPresent(Loaded[j])

C1_Witness ==
    /\ Returned
    /\ df_participant # <<>>
    /\ \E p \in Pids :
          /\ Cardinality(RowsOf(p)) >= config.min_entries_per_participant
          /\ \A j \in RowsOf(p) : ~TotalsPresent(Loaded[j])
          /\ p \notin OutPids

(* C2: EntryCount of every returned participant equals the number of that  *)
(* participant's input rows that pass all of stages 1-4; Summary rows and  *)
(* rows with too few words are not counted, whatever EntryCount the input  *)
(* carried.                                                                *)
C2_EntryCount ==
    Returned =>
        \A i \in DOMAIN df_participant :
            df_participant[i].EntryCount = QualCount(df_participant[i].ParticipantID)

C2_Witness ==
    /\ Returned
    /\ \E i \in DOMAIN df_participant :
          LET p == df_participant[i].ParticipantID
          IN  /\ df_participant[i].EntryCount = 6
              /\ Cardinality(RowsOf(p)) = 7
              /\ \E j \in RowsOf(p) :
                    Loaded[j].Type = "Summary" \/ TokenCount(Loaded[j].JournalAnonymised) < 4

(* C3: with min_entries_per_participant = 6 a participant with exactly 5   *)
(* rows surviving stages 1-4 is absent from the output, and one with       *)
(* exactly 6 passes stage 5 and is in the output unless stage 7 excludes   *)
(* them.                                                                   *)
C3_EntriesBoundary ==
    config.min_entries_per_participant = 6 =>
        /\ pc = "s6" =>
              \A p \in Pids :
                  /\ QualCount(p) = 5 => p \notin PidsIn(df)
                  /\ QualCount(p) = 6 => p \in PidsIn(df)
        /\ Returned =>
              \A p \in Pids :
                  /\ QualCount(p) = 5 => p \notin OutPids
                  /\ (QualCount(p) = 6 /\ Stage7Keeps(p)) => p \in OutPids

C3_Witness ==
    /\ Returned
    /\ config.min_entries_per_participant = 6
    /\ \E p, q \in Pids :
          /\ QualCount(p) = 5 /\ p \notin OutPids
          /\ QualCount(q) = 6 /\ q \in OutPids

(* C4: with enforce_nonzero_wemwbs no returned participant has a baseline  *)
(* or exit WEMWBS total of 0, even one that passes every other criterion.  *)
C4_NonzeroWemwbs ==
    (Returned /\ config.enforce_nonzero_wemwbs) =>
        /\ \A i \in DOMAIN df_participant : ~ZeroWemwbs(df_participant[i])
        /\ \A p \in OutPids : \E j \in RowsOf(p) : ~ZeroWemwbs(Loaded[j])

C4_Witness ==
    /\ Returned
    /\ config.enforce_nonzero_wemwbs
    /\ df_participant # <<>>
    /\ \E p \in Pids :
          /\ \A j \in RowsOf(p) : Loaded[j].B_WEMWBS_Total = 0
          /\ QualCountUnder(p, [config EXCEPT !.enforce_nonzero_wemwbs = FALSE])
                >= config.min_entries_per_participant
          /\ Stage7Keeps(p)
          /\ p \notin OutPids

(* C5: stage 3 keeps a row if and only if its anonymised content has at    *)
(* least min_word_count whitespace-delimited tokens: three words are       *)
(* dropped, four are kept, a missing content is dropped.                   *)
C5_WordCountFilter ==
    pc = "s4" =>
        /\ \A j \in DOMAIN Loaded :
              InDf(Loaded[j].JournalUniqueID) <=>
                  /\ PassesStages12(Loaded[j], config)
                  /\ Loaded[j].JournalAnonymised # NoText
                  /\ TokenCount(Loaded[j].JournalAnonymised) >= config.min_word_count
        /\ \A i \in DOMAIN df : df[i].WordCount = TokenCount(df[i].JournalAnonymised)
        /\ config.min_word_count = 4 =>
              \A i \in DOMAIN df : df[i].JournalAnonymised \notin {NoText, <<W, S, W, S, W>>,
                                                                    TextOf("Short")}

C5_Witness ==
    /\ pc = "s4"
    /\ config.min_word_count = 4
    /\ \E j, k \in DOMAIN Loaded :
          /\ PassesStages12(Loaded[j], config)
          /\ TokenCount(Loaded[j].JournalAnonymised) = 3
          /\ ~InDf(Loaded[j].JournalUniqueID)
          /\ TokenCount(Loaded[k].JournalAnonymised) = 4
          /\ InDf(Loaded[k].JournalUniqueID)

(* C6: with eligible_only and a non-empty outcome mapping every returned   *)
(* participant is mapped to Eligible or Insufficient; any other label, or  *)
(* no entry in the mapping, excludes the participant.                      *)
C6_EligibleOnly ==
    (Returned /\ config.eligible_only /\ outcomeFile.exists
        /\ DOMAIN outcomeFile.doc # {}) =>
        \A i \in DOMAIN df_participant :
            LET p == df_participant[i].ParticipantID
            IN  /\ p \in DOMAIN outcomeFile.doc
                /\ outcomeFile.doc[p] \in {"Eligible", "Insufficient"}
                /\ df_participant[i].StudyOutcome = outcomeFile.doc[p]

C6_Witness ==
    /\ Returned
    /\ config.eligible_only
    /\ DOMAIN outcomeFile.doc # {}
    /\ df_participant # <<>>
    /\ \E q \in Pids :
          /\ QualCount(q) >= config.min_entries_per_participant
          /\ q \in DOMAIN outcomeFile.doc
          /\ outcomeFile.doc[q] = "Fraudulent"
          /\ q \notin OutPids

Logged(line) == \E k \in DOMAIN out : out[k].line = line

(* the complete-data, word-count, type and entry-count stages have printed *)
(* their audit lines, in this order, before position k of the output       *)
ContentStagesBefore(o, k) ==
    \E a, b, c \in 1..(k - 1) :
        /\ a < b /\ b < c
        /\ o[a].line = "After removing missing mental health data"
        /\ o[b].line = "After filtering entries with too few words"
        /\ o[c].line = "After requiring the minimum entries per participant"
        /\ config.exclude_type # NoExclude =>
              \E t \in (b + 1)..(c - 1) : o[t].line = "After excluding entries of the type"

(* a step that removes entries or participants because of StudyOutcome:    *)
(* filter_by_status.py writing file 11, or stage 7                         *)
OutcomeRemovalStep ==
    \/ /\ fs'["11"] # fs["11"]
       /\ \E j \in DOMAIN fs["8"].rows :
             LET r == fs["8"].rows[j]
             IN  /\ r.ParticipantID \in DOMAIN outcomeFile.doc
                 /\ outcomeFile.doc[r.ParticipantID] \notin {"Eligible", "Insufficient"}
                 /\ \A i \in DOMAIN fs'["11"].rows : fs'["11"].rows[i] # r
    \/ /\ pc = "s7"
       /\ Len(df_participant') < Len(df_participant)

(* C7, as claimed: across the pipeline nothing is removed on the basis of  *)
(* StudyOutcome before the complete-data, word-count, type and entry-count *)
(* stages have run.                                                        *)
C7_OutcomeAfterContent ==
    [][OutcomeRemovalStep => ContentStagesBefore(out, Len(out) + 1)]_vars

(* C7, amended: inside apply_final_filters the StudyOutcome exclusion      *)
(* (stage 7) comes after the complete-data, word-count, type and           *)
(* entry-count stages of that call; the input file 11 that main reads has  *)
(* already been reduced by filter_by_status.py to the participants whose   *)
(* outcome is Eligible or Insufficient.                                    *)
C7_Stage7LastInCall ==
    /\ \A k \in DOMAIN out :
          out[k].line = "After removing fraudulent participants" =>
              ContentStagesBefore(out, k)
    /\ fs["11"].exists =>
          \A j \in DOMAIN fs["11"].rows :
              /\ fs["11"].rows[j].ParticipantID \in DOMAIN outcomeFile.doc
              /\ outcomeFile.doc[fs["11"].rows[j].ParticipantID]
                    \in {"Eligible", "Insufficient"}

C7_Witness ==
    /\ Returned
    /\ \E k \in DOMAIN out :
          /\ out[k].line = "After removing fraudulent participants"
          /\ out[k].removed > 0

(* C8: when study_outcome_by_pid.json is absent, apply_final_filters skips *)
(* stage 7 with a warning, raises nothing there and returns exactly the    *)
(* participants that survived stage 6.                                     *)
C8_MissingOutcomeFile ==
    (~outcomeFile.exists /\ config.eligible_only) =>
        /\ Returned =>
              /\ OutPids = PidsIn(df)
              /\ Len(df_participant) = Cardinality(PidsIn(df))
              /\ \A i \in DOMAIN df_participant : df_participant[i].StudyOutcome = NaS
              /\ Logged("Study outcome file not found")
              /\ ~Logged("After removing fraudulent participants")
        /\ (Logged("AttributeError") \/ Logged("UnboundLocalError")) =>
              ~Logged("After requiring the minimum entries per participant")

C8_Witness ==
    /\ Returned
    /\ ~outcomeFile.exists
    /\ config.eligible_only
    /\ Logged("Study outcome file not found")
    /\ Cardinality(OutPids) = 2
    /\ OutPids = PidsIn(df)

(* C9: when 11_journals_qualified_for_analysis.csv is absent, main reports *)
(* the missing file and returns; none of the outputs 13, 14, 15 is created *)
(* or modified: each is still absent, or still what an earlier run left.   *)
C9_MissingInput ==
    (mode = "pipeline" /\ ~fs["11"].exists) =>
        /\ pc = "idle"
        /\ \/ \A f \in Outputs : fs[f] = Absent
           \/ \A f \in Outputs : fs[f] = Stale
        /\ out \in {<<>>, <<Say("Input file not found", 0, 0)>>,
                    <<Say("FileNotFoundError", 0, 0)>>}

C9_Witness ==
    /\ mode = "pipeline"
    /\ ~fs["11"].exists
    /\ pc = "idle"
    /\ out = <<Say("Input file not found", 0, 0)>>
    /\ \A f \in Outputs : fs[f] = Stale

RowSet(tbl) == {tbl[i] : i \in DOMAIN tbl}

ExactlyTheRowsOf(kept, all, ids) ==
    /\ \A j \in DOMAIN all : all[j].ParticipantID \in ids <=> all[j] \in RowSet(kept)
    /\ RowSet(kept) \subseteq RowSet(all)
    /\ Len(kept) = Cardinality({j \in DOMAIN all : all[j].ParticipantID \in ids})

(* C10: files 14 and 15 hold exactly the rows of the entry-level file 11   *)
(* and the utterance-level file 12 whose ParticipantID is in the final     *)
(* participant set (file 13), Summary and short entries included.          *)
C10_MembershipFilter ==
    (pc = "idle" /\ Logged("Journal entries")) =>
        /\ fs["13"].exists
        /\ fs["14"].exists
        /\ ExactlyTheRowsOf(fs["14"].rows, fs["11"].rows, PidsIn(fs["13"].rows))
        /\ fs["15"].exists
        /\ ExactlyTheRowsOf(fs["15"].rows, fs["12"].rows, PidsIn(fs["13"].rows))

C10_Witness ==
    /\ pc = "idle"
    /\ Logged("Journal entries")
    /\ fs["13"].rows # <<>>
    /\ \E i \in DOMAIN fs["14"].rows : fs["14"].rows[i].Type = "Summary"
    /\ \E i \in DOMAIN fs["15"].rows : fs["15"].rows[i].Type = "Summary"

(* the participant file 13 was written by the run of main in progress or   *)
(* just finished                                                           *)
Saved == mode = "pipeline" /\ Logged("Final filtered participants saved")

(* C11: for every participant of the persisted participant-level table and *)
(* each of WEMWBS, GAD7 and PHQ9, the change score equals that             *)
(* participant's exit total minus their baseline total.                    *)
C11_ChangeScores ==
    Saved =>
        /\ fs["13"].exists
        /\ \A i \in DOMAIN fs["13"].rows :
              LET r == fs["13"].rows[i]
                  t == TotalsOf(r.ParticipantID)
              IN  /\ r.Change_WEMWBS = t.E_WEMWBS_Total - t.B_WEMWBS_Total
                  /\ r.Change_GAD7 = t.E_GAD7_Total - t.B_GAD7_Total
                  /\ r.Change_PHQ9 = t.E_PHQ9_Total - t.B_PHQ9_Total
                  /\ \A c \in required_cols : t[c] # NaN

C11_Witness ==
    /\ Saved
    /\ \E i \in DOMAIN fs["13"].rows :
          /\ fs["13"].rows[i].Change_WEMWBS = 5
          /\ fs["13"].rows[i].Change_GAD7 = -3
          /\ fs["13"].rows[i].Change_PHQ9 = -4

(* the first row of participant p in tbl, in input order *)
FirstRowOf(tbl, p) ==
    tbl[CHOOSE i \in DOMAIN tbl :
            /\ tbl[i].ParticipantID = p
            /\ \A j \in 1..(i - 1) : tbl[j].ParticipantID # p]

(* C12: stage 6 yields exactly one row per participant surviving stage 5,  *)
(* and every field of that row holds the value of the participant's first  *)
(* surviving row in input order.                                           *)
C12_FirstRow ==
    pc = "s7" =>
        /\ Len(df_participant) = Cardinality(PidsIn(df))
        /\ \A i, j \in DOMAIN df_participant :
              df_participant[i].ParticipantID = df_participant[j].ParticipantID => i = j
        /\ \A i \in DOMAIN df_participant :
              /\ df_participant[i].ParticipantID \in PidsIn(df)
              /\ df_participant[i] = FirstRowOf(df, df_participant[i].ParticipantID)

(* a step that completes one of the entry-level stages 1-5 *)
EntryStageStep == pc \in {"s1", "s2", "s3", "s4", "s5"} /\ pc' \in {"s2", "s3", "s4", "s5", "s6"}

(* C13: stages 1-5 and 7 never increase the number of rows or the number   *)
(* of distinct participants; stage 6 produces exactly as many rows as      *)
(* there are distinct participants after stage 5 and removes none of them. *)
C13_MonotonicNarrowing ==
    [][/\ EntryStageStep =>
             /\ Len(df') <= Len(df)
             /\ Cardinality(PidsIn(df')) <= Cardinality(PidsIn(df))
       /\ (pc = "s6" /\ pc' = "s7") =>
             /\ Len(df_participant') = Cardinality(PidsIn(df))
             /\ PidsIn(df_participant') = PidsIn(df)
       /\ (pc = "s7" /\ pc' = "ret") =>
             /\ Len(df_participant') <= Len(df_participant)
             /\ Cardinality(PidsIn(df_participant')) <= Cardinality(PidsIn(df_participant))
      ]_vars

C13_Witness ==
    /\ Returned
    /\ Len(df) > Cardinality(PidsIn(df))
    /\ \E k \in DOMAIN out :
          /\ out[k].line = "After filtering entries with too few words"
          /\ out[k].removed > 0
    /\ \E k \in DOMAIN out :
          /\ out[k].line = "After removing fraudulent participants"
          /\ out[k].removed > 0

(* the second run has returned and the caller has computed its change      *)
(* scores                                                                  *)
Second == WithChange(df_participant)

SameChanges(a, b) ==
    /\ a.Change_WEMWBS = b.Change_WEMWBS
    /\ a.Change_GAD7 = b.Change_GAD7
    /\ a.Change_PHQ9 = b.Change_PHQ9

(* C14, as claimed: applying the Final Filter to the participant-level     *)
(* table a previous run produced, with the outcome file unchanged, yields  *)
(* the same participant set and the same change scores.                    *)
C14_Idempotent ==
    (mode = "rerun" /\ Returned) =>
        /\ PidsIn(Second) = PidsIn(prev)
        /\ \A i \in DOMAIN Second : \A j \in DOMAIN prev :
              Second[i].ParticipantID = prev[j].ParticipantID =>
                  SameChanges(Second[i], prev[j])

(* C14, amended: the second run adds no participant and changes no change  *)
(* score of a participant it keeps; it keeps every participant when        *)
(* min_entries_per_participant is at most 1 and none when it is larger,    *)
(* because the entries are recounted and the table has one row each.       *)
C14_RerunRecounts ==
    (mode = "rerun" /\ Returned) =>
        /\ PidsIn(Second) \subseteq PidsIn(prev)
        /\ \A i \in DOMAIN Second : \A j \in DOMAIN prev :
              Second[i].ParticipantID = prev[j].ParticipantID =>
                  SameChanges(Second[i], prev[j])
        /\ config.min_entries_per_participant <= 1 => PidsIn(Second) = PidsIn(prev)
        /\ config.min_entries_per_participant > 1 => Second = <<>>

C14_Witness ==
    /\ mode = "rerun"
    /\ Returned
    /\ config.min_entries_per_participant = 6
    /\ \E j \in DOMAIN prev : prev[j].EntryCount = 6 /\ prev[j].Change_WEMWBS = 5
    /\ df_participant = <<>>

(* The table after stages 1 and 2, and the entry-level table reached when  *)
(* the type exclusion (stage 4) is run before the word-count filter        *)
(* (stage 3).                                                              *)
AfterStages12 ==
    IF config.enforce_nonzero_wemwbs
    THEN DropZeroWemwbs(DropMissingMH(Loaded))
    ELSE DropMissingMH(Loaded)

SwappedOrder ==
    KeepLongEnough(
        WithWordCount(IF config.exclude_type # NoExclude
                      THEN DropType(AfterStages12, config)
                      ELSE AfterStages12),
        config)

EntryCountOf(tbl, p) == Len(GroupRows(tbl, p))

ShortSummary(r) == r.Type = "Summary" /\ TokenCount(r.JournalAnonymised) < 4

(* C15, as claimed: when the input holds a Summary row of fewer than 4     *)
(* words, running stage 4 before stage 3 gives that row's participant a    *)
(* different EntryCount than the order of the code.                        *)
C15_OrderSensitive ==
    (pc = "s5" /\ config.exclude_type = "Summary" /\ config.min_word_count = 4) =>
        \A j \in DOMAIN Loaded :
            ShortSummary(Loaded[j]) =>
                EntryCountOf(df, Loaded[j].ParticipantID)
                    # EntryCountOf(SwappedOrder, Loaded[j].ParticipantID)

(* C15, amended: the EntryCount that stage 5 computes is the same for      *)
(* every participant whether stage 3 or stage 4 runs first, also when a    *)
(* Summary row has fewer than 4 words.                                     *)
C15_OrderInsensitive ==
    pc = "s5" =>
        /\ PidsIn(df) = PidsIn(SwappedOrder)
        /\ \A i \in DOMAIN df :
              WithEntryCount(df)[i].EntryCount
                  = EntryCountOf(SwappedOrder, df[i].ParticipantID)

C15_Witness ==
    /\ pc = "s5"
    /\ config.exclude_type = "Summary"
    /\ \E j \in DOMAIN Loaded :
          /\ ShortSummary(Loaded[j])
          /\ PassesStages12(Loaded[j], config)
          /\ EntryCountOf(df, Loaded[j].ParticipantID) = 6
          /\ Cardinality(RowsOf(Loaded[j].ParticipantID)) = 7

(* the audit lines of the stages that print one, in the order of the code  *)
StageLines ==
    <<"After removing missing mental health data",
      "After removing zero WEMWBS scores",
      "After filtering entries with too few words",
      "After excluding entries of the type",
      "After requiring the minimum entries per participant">>

(* C16: with enforce_nonzero_wemwbs = False apply_final_filters skips only *)
(* stage 2 and runs stages 3-7 to completion, returning a participant      *)
(* table; with exclude_type = None only stage 4 is skipped.                *)
C16_SwitchSkipsOneStage ==
    HasStrAccessor(Loaded) =>
        /\ ~config.enforce_nonzero_wemwbs =>
              /\ pc # "raised"
              /\ Returned =>
                    \A k \in DOMAIN StageLines : Logged(StageLines[k]) <=> k # 2
        /\ config.exclude_type = NoExclude =>
              /\ pc # "raised"
              /\ Returned =>
                    \A k \in DOMAIN StageLines : Logged(StageLines[k]) <=> k # 4

(* the step appends the audit record of a stage *)
Emits(line, n, removed) ==
    \E k \in (Len(out) + 1)..Len(out') : out'[k] = Say(line, n, removed)

(* steps that complete a stage that is not disabled by the configuration   *)
Stage1Runs == pc = "s1" /\ pc' = "s2"

Stage2Runs == pc = "s2" /\ pc' = "s3" /\ config.enforce_nonzero_wemwbs

Stage3Runs == pc = "s3" /\ pc' = "s4"

Stage4Runs == pc = "s4" /\ pc' = "s5" /\ config.exclude_type # NoExclude

Stage5Runs == pc = "s5" /\ pc' = "s6"

Stage6Runs == pc = "s6" /\ pc' = "s7"

Stage7Runs ==
    /\ pc = "s7" /\ pc' = "ret"
    /\ config.eligible_only
    /\ outcomeFile.exists /\ DOMAIN outcomeFile.doc # {}

EntryStageAudited(k) == Emits(StageLines[k], Len(df'), Len(df) - Len(df'))

AuditedStages ==
    /\ Stage1Runs => EntryStageAudited(1)
    /\ Stage2Runs => EntryStageAudited(2)
    /\ Stage3Runs => EntryStageAudited(3)
    /\ Stage4Runs => EntryStageAudited(4)
    /\ Stage5Runs =>
          Emits(StageLines[5], Cardinality(PidsIn(df')),
                Cardinality(PidsIn(df)) - Cardinality(PidsIn(df')))
    /\ Stage7Runs =>
          Emits("After removing fraudulent participants", Len(df_participant'),
                Len(df_participant) - Len(df_participant'))

----------------------------------------------------------------------------
(* Questionnaire scoring (QualtricsProcessing.py).  A column of the merged *)
(* survey table is <<prefix, questionnaire, item>>, standing for the name  *)
(* prefix_questionnaire_item; a column of the totals table is              *)
(* <<letter, questionnaire, name>>.  The table holds one respondent.       *)

prefixes == <<"Prescreening", "Baseline", "Exit">>

questionnaires == <<"WEMWBS", "GAD7", "PHQ9", "RRS", "BIS", "ASQ", "NIEQ", "VISQ">>

(* prefix[:1] *)
Letter(prefix) ==
    CASE prefix = "Prescreening" -> "P" [] prefix = "Baseline" -> "B" [] prefix = "Exit" -> "E"

NumStr == <<"1", "2", "3", "4", "5", "6", "7", "8", "9", "10", "11", "12", "13",
            "14", "15">>

VisqStr == <<"01", "02", "03", "04", "05", "06", "07", "08", "09", "10", "11", "12",
             "13", "14", "15", "16", "17", "18", "19", "20", "21", "22", "23", "24",
             "25", "26">>

VISQ_categories ==
    [C |-> <<"01", "07", "08", "14", "15">>,
     D |-> <<"02", "06", "10", "13", "21">>,
     E |-> <<"09", "11", "17", "18", "19", "20", "22", "23", "24">>,
     O |-> <<"03", "04", "05", "12", "16">>,
     P |-> <<"19", "21", "22", "25", "26">>]

BIS_categories ==
    ("Motor" :> <<"1", "2", "3", "4", "5", "7", "10">>)
    @@ ("Non-Planning" :> <<"6", "8", "9", "11", "15">>)
    @@ ("Attention" :> <<"12", "13", "14">>)

NIEQ_categories ==
    [ISpeaking |-> <<"1", "6">>, ISeeing |-> <<"2", "7">>, Feeling |-> <<"3", "8">>,
     SensAw |-> <<"4", "9">>, UnsTh |-> <<"5", "10">>]

(* the pairs (i, i + 5) of line 322 *)
nieq_pairs == [i \in 1..5 |-> <<NumStr[i], NumStr[i + 5]>>]

(* Items of a block in column order.  The scorer takes whatever item       *)
(* columns of a plain questionnaire it finds: NItems of them here.  The    *)
(* items of BIS, NIEQ and VISQ are the ones the category tables name.      *)
NItems == 3

ItemNames(q) ==
    CASE q = "VISQ" -> VisqStr
      [] q = "BIS" -> SubSeq(NumStr, 1, 15)
      [] q = "NIEQ" -> SubSeq(NumStr, 1, 10)
      [] OTHER -> SubSeq(NumStr, 1, NItems)

Pairs == {<<prefixes[a], questionnaires[b]>> : a \in DOMAIN prefixes, b \in DOMAIN questionnaires}

(* the loop of lines 308-309 visits the pairs prefix by prefix *)
PairAt(n) ==
    <<prefixes[((n - 1) \div Len(questionnaires)) + 1],
      questionnaires[((n - 1) % Len(questionnaires)) + 1]>>

NPairs == Len(prefixes) * Len(questionnaires)

(* A cell as read from the survey export: a number, a missing value, a     *)
(* text that is a numeral, or any other text.                              *)
Num(v) == [kind |-> "num", val |-> v]

Missing == [kind |-> "nan", val |-> 0]

Numeral(v) == [kind |-> "numeral", val |-> v]

Text == [kind |-> "text", val |-> 0]

(* pd.to_numeric(errors='coerce') *)
to_numeric(cell) == IF cell.kind \in {"num", "numeral"} THEN cell.val ELSE NaN

(* Survey tables: every block is complete except the block in focus, and   *)
(* a whole stage or a whole questionnaire may be absent from the export.   *)
BaseValue(q, i) == IF q = "WEMWBS" THEN 3 + ((i - 1) % 3) ELSE 1 + (i % 3)

Patterns == {"complete", "oneMissing", "oneText", "allMissing", "numeral", "columnMissing"}

CellOf(pattern, q, i) ==
    CASE pattern \in {"oneMissing", "oneText"} /\ i = Len(ItemNames(q)) ->
             IF pattern = "oneMissing" THEN Missing ELSE Text
      [] pattern = "allMissing" -> Missing
      [] pattern = "numeral" /\ i = 1 -> Numeral(BaseValue(q, i))
      [] OTHER -> Num(BaseValue(q, i))

ItemIndex(q, name) == CHOOSE i \in DOMAIN ItemNames(q) : ItemNames(q)[i] = name

BlockColumns(pr, pattern) ==
    {<<pr[1], pr[2], ItemNames(pr[2])[i]>> :
        i \in 1..(Len(ItemNames(pr[2])) - (IF pattern = "columnMissing" THEN 1 ELSE 0))}

MkSurvey(absent, focus, pattern) ==
    [c \in UNION {BlockColumns(pr, IF pr = focus THEN pattern ELSE "complete") :
                    pr \in Pairs \ absent} |->
        CellOf(IF <<c[1], c[2]>> = focus THEN pattern ELSE "complete",
               c[2], ItemIndex(c[2], c[3]))]

AbsentFamilies ==
    {{}}
    \cup {{pr \in Pairs : pr[1] = prefixes[a]} : a \in DOMAIN prefixes}
    \cup {{pr \in Pairs : pr[2] = questionnaires[b]} : b \in DOMAIN questionnaires}

(* the survey tables with one of the given families of blocks absent *)
Surveys(families) == {MkSurvey(a, f, pat) : a \in families, f \in Pairs, pat \in Patterns}

(* df.filter(regex=f'^{prefix}_{q}').columns *)
questionnaire_columns(dfx, prefix, q) == {c \in DOMAIN dfx : c[1] = prefix /\ c[2] = q}

(* line 316 *)
RecodeASQ(x) == IF x \in {1, 2} THEN 0 ELSE IF x \in {3, 4} THEN 1 ELSE x

numeric_cols(dfx, cols, q) ==
    [c \in cols |-> IF q = "ASQ" THEN RecodeASQ(to_numeric(dfx[c])) ELSE to_numeric(dfx[c])]

Skipna(x) == IF x = NaN THEN 0 ELSE x

RECURSIVE SumSet(_, _)
SumSet(num, cols) ==
    IF cols = {} THEN 0
    ELSE LET c == CHOOSE x \in cols : TRUE
         IN  Skipna(num[c]) + SumSet(num, cols \ {c})

(* faulty variant: a missing item makes the sum missing (skipna=False) *)
SumAxis1_Propagating(num, cols) ==
    IF \E c \in cols : num[c] = NaN THEN NaN ELSE SumSet(num, cols)

(* DataFrame.sum(axis=1): missing items are skipped, no item at all gives 0 *)
SumAxis1(num, cols) == SumSet(num, cols)

Named(prefix, q, names) == {<<prefix, q, names[i]>> : i \in DOMAIN names}

(* numeric_cols[[col1, col2]].mean(axis=1), in halves: missing items are   *)
(* skipped, a pair with no item is missing                                 *)
MeanHalves(a, b) ==
    IF a = NaN /\ b = NaN THEN NaN
    ELSE IF a = NaN THEN 2 * b
    ELSE IF b = NaN THEN 2 * a
    ELSE a + b

RECURSIVE AddSeries(_, _)
AddSeries(xs, i) ==
    IF i > Len(xs) THEN 0
    ELSE LET rest == AddSeries(xs, i + 1)
         IN  IF xs[i] = NaN \/ rest = NaN THEN NaN ELSE xs[i] + rest

(* line 323, in halves: the sum of the five pair means *)
NieqTotalHalves(num, prefix) ==
    AddSeries([i \in 1..5 |-> MeanHalves(num[<<prefix, "NIEQ", nieq_pairs[i][1]>>],
                                           num[<<prefix, "NIEQ", nieq_pairs[i][2]>>])], 1)

Ext(f, g) == [x \in DOMAIN f \cup DOMAIN g |-> IF x \in DOMAIN g THEN g[x] ELSE f[x]]

categories(q) ==
    CASE q = "NIEQ" -> NIEQ_categories
      [] q = "VISQ" -> VISQ_categories
      [] q = "BIS" -> BIS_categories

(* numeric_cols[category_cols] names a column that is not there *)
KeyError(cols, prefix, q) ==
    /\ q \in {"NIEQ", "VISQ", "BIS"}
    /\ cols # {}
    /\ \E cat \in DOMAIN categories(q) : ~(Named(prefix, q, categories(q)[cat]) \subseteq cols)

(* faulty variant: the pair is scored whether or not it has columns *)
NotEmpty_Always(cols) == TRUE

(* line 311, "if not questionnaire_columns.empty" *)
NotEmpty(cols) == cols # {}

(* Lines 312-342 for one prefix and questionnaire: the columns the pass    *)
(* adds to totals_df.  The body of "for col in numeric_cols" runs only     *)
(* when there is a column.                                                 *)
Scored(dfx, prefix, q) ==
    LET cols == questionnaire_columns(dfx, prefix, q)
        num == numeric_cols(dfx, cols, q)
        L == Letter(prefix)
        cats == IF q \in {"NIEQ", "VISQ", "BIS"} /\ cols # {}
                THEN [c \in {<<L, q, cat>> : cat \in DOMAIN categories(q)} |->
                         SumAxis1(num, Named(prefix, q, categories(q)[c[3]]))]
                ELSE <<>>
        special == IF cols = {} THEN <<>>
                   ELSE IF q = "NIEQ"
                   THEN Ext(cats, [c \in {<<L, q, "Total">>} |-> NieqTotalHalves(num, prefix)])
                   ELSE IF q = "VISQ"
                   THEN Ext(cats, [c \in {<<L, q, "Total">>} |-> SumAxis1(num, cols)])
                   ELSE cats
        plain == IF q \notin {"NIEQ", "VISQ"}
                 THEN Ext(num, [c \in {<<L, q, "Total">>} |-> SumAxis1(num, cols)])
                 ELSE <<>>
    IN  Ext(special, plain)

(* line 344: the columns whose name ends in a digit *)
EndsInDigit(c) ==
    \/ \E i \in DOMAIN NumStr : c[3] = NumStr[i]
    \/ \E i \in DOMAIN VisqStr : c[3] = VisqStr[i]

ScoreInit ==
    /\ FilterIdle
    /\ RunIdle
    /\ OtherIdle
    /\ survey \in Surveys(AbsentFamilies)
    /\ totals_df = <<>>
    /\ pair = 1
    /\ spc = "loop"

(* one pass of the loops of lines 308-342 *)
ScorePair ==
    /\ spc = "loop"
    /\ LET prefix == PairAt(pair)[1]
           q == PairAt(pair)[2]
           cols == questionnaire_columns(survey, prefix, q)
       IN  IF ~NotEmpty(cols)
           THEN /\ totals_df' = totals_df
                /\ pair' = pair + 1
                /\ spc' = IF pair = NPairs THEN "drop" ELSE "loop"
           ELSE IF KeyError(cols, prefix, q)
           THEN /\ spc' = "raised"
                /\ UNCHANGED <<totals_df, pair>>
           ELSE /\ totals_df' = Ext(totals_df, Scored(survey, prefix, q))
                /\ pair' = pair + 1
                /\ spc' = IF pair = NPairs THEN "drop" ELSE "loop"
    /\ UNCHANGED <<filterVars, runVars, otherVars, survey>>

(* lines 344-346: the item columns are dropped and the totals returned *)
DropItemColumns ==
    /\ spc = "drop"
    /\ totals_df' = [c \in {x \in DOMAIN totals_df : ~EndsInDigit(x)} |-> totals_df[c]]
    /\ spc' = "done"
    /\ UNCHANGED <<filterVars, runVars, otherVars, survey, pair>>

ScoreNext ==
    \/ ScorePair
    \/ DropItemColumns

ScoreSpec == ScoreInit /\ [][ScoreNext]_vars

----------------------------------------------------------------------------
(* Properties of the scorer, stated over the survey table                  *)

HasColumns(pr) == \E c \in DOMAIN survey : c[1] = pr[1] /\ c[2] = pr[2]

TotalOf(pr) == <<Letter(pr[1]), pr[2], "Total">>

(* the answer the cell stands for, if it stands for one *)
Answered(cell) == cell.kind \in {"num", "numeral"}

ItemScore(q, cell) ==
    IF q = "ASQ" THEN (IF cell.val \in {1, 2} THEN 0 ELSE IF cell.val \in {3, 4} THEN 1 ELSE cell.val)
    ELSE cell.val

HasUnanswered(pr) ==
    \E c \in DOMAIN survey : c[1] = pr[1] /\ c[2] = pr[2] /\ ~Answered(survey[c])

(* the sum of the scores of the answered items of a block, item by item *)
RECURSIVE PartialSum(_, _)
PartialSum(pr, i) ==
    IF i > Len(ItemNames(pr[2])) THEN 0
    ELSE LET c == <<pr[1], pr[2], ItemNames(pr[2])[i]>>
         IN  (IF c \in DOMAIN survey /\ Answered(survey[c])
              THEN ItemScore(pr[2], survey[c]) ELSE 0)
             + PartialSum(pr, i + 1)

(* C18, as claimed: a respondent with a missing or non-numeric item in a   *)
(* stage x instrument block gets a missing Total for that instrument, not  *)
(* a partial sum; a block with every item missing does not give 0.         *)
C18_MissingPropagates ==
    spc = "done" =>
        \A pr \in Pairs :
            (HasColumns(pr) /\ HasUnanswered(pr)) =>
                /\ TotalOf(pr) \in DOMAIN totals_df
                /\ totals_df[TotalOf(pr)] = NaN

(* C18, amended: the Total of a block is the sum of the items that are     *)
(* answered; missing and non-numeric items count as nothing, so items      *)
(* 3, 4, missing give 7 and a block with no answered item gives 0.  Only   *)
(* the NIEQ Total, a sum of pair means, is missing, and exactly when both  *)
(* items of one of its pairs are unanswered.                               *)
C18_PartialSums ==
    spc = "done" =>
        \A pr \in Pairs :
            HasColumns(pr) =>
                /\ TotalOf(pr) \in DOMAIN totals_df
                /\ pr[2] # "NIEQ" => totals_df[TotalOf(pr)] = PartialSum(pr, 1)
                /\ pr[2] = "NIEQ" =>
                      (totals_df[TotalOf(pr)] = NaN <=>
                          \E i \in 1..5 :
                              /\ ~Answered(survey[<<pr[1], "NIEQ", NumStr[i]>>])
                              /\ ~Answered(survey[<<pr[1], "NIEQ", NumStr[i + 5]>>]))

C18_Witness ==
    /\ spc = "done"
    /\ {<<"Baseline", "WEMWBS", NumStr[i]>> : i \in 1..3} \subseteq DOMAIN survey
    /\ {<<"B", "WEMWBS", "Total">>, <<"E", "WEMWBS", "Total">>} \subseteq DOMAIN totals_df
    /\ survey[<<"Baseline", "WEMWBS", "1">>] = Num(3)
    /\ survey[<<"Baseline", "WEMWBS", "2">>] = Num(4)
    /\ survey[<<"Baseline", "WEMWBS", "3">>] = Missing
    /\ totals_df[<<"B", "WEMWBS", "Total">>] = 7
    /\ totals_df[<<"E", "WEMWBS", "Total">>] = 12

PairColumns(tot, pr) == {c \in DOMAIN tot : c[1] = Letter(pr[1]) /\ c[2] = pr[2]}

(* C19: a stage x questionnaire pair with no matching column is skipped    *)
(* without raising and gets no Total column (nor any other), and every     *)
(* pair that has matching columns is still scored.                         *)
C19_AbsentPairSkipped ==
    [][/\ (spc = "loop" /\ ~HasColumns(PairAt(pair))) =>
             /\ spc' # "raised"
             /\ totals_df' = totals_df
       /\ spc' = "done" =>
             \A pr \in Pairs :
                 /\ HasColumns(pr) => TotalOf(pr) \in DOMAIN totals_df'
                 /\ ~HasColumns(pr) => PairColumns(totals_df', pr) = {}
      ]_vars

C19_Witness ==
    /\ spc = "done"
    /\ \A b \in DOMAIN questionnaires :
          /\ ~HasColumns(<<"Exit", questionnaires[b]>>)
          /\ <<"E", questionnaires[b], "Total">> \notin DOMAIN totals_df
          /\ <<"B", questionnaires[b], "Total">> \in DOMAIN totals_df
          /\ <<"P", questionnaires[b], "Total">> \in DOMAIN totals_df

----------------------------------------------------------------------------
(* Consecutive identical answers (SuspiciousUsersChecks): the answers of   *)
(* one respondent to the items of one stage x questionnaire block, in      *)
(* column order.  A missing answer is NaN.                                 *)

None == -1

DefaultThreshold == 10

Thresholds == {0, 1, 2, DefaultThreshold}

(* answer == last_answer: NaN is not equal to itself *)
PyEq(a, b) == a = b /\ a # NaN

Answers == {1, 2, NaN}

Repeat(v, n) == [i \in 1..n |-> v]

(* Bounded series: up to three stretches of one answer each *)
MaxLead == 2

MaxRepeat == 12

MaxTail == 4

SeriesSet ==
    {Repeat(a, l) \o Repeat(b, m) \o Repeat(c, n) :
        a \in Answers, b \in Answers, c \in Answers,
        l \in 0..MaxLead, m \in 0..MaxRepeat, n \in 0..MaxTail}

ConsecInit ==
    /\ FilterIdle
    /\ SurveyIdle
    /\ OtherIdle
    /\ series \in SeriesSet
    /\ threshold \in Thresholds
    /\ idx = 1
    /\ count = 0
    /\ last_answer = None
    /\ hpc = "loop"
    /\ flagged = FALSE

(* faulty variant: the run is reported once it reaches the threshold *)
SameAnswer_AtThreshold ==
    /\ hpc = "loop"
    /\ idx <= Len(series)
    /\ PyEq(series[idx], last_answer)
    /\ count' = count + 1
    /\ IF count' >= threshold
       THEN hpc' = "true" /\ idx' = idx
       ELSE hpc' = hpc /\ idx' = idx + 1
    /\ UNCHANGED <<filterVars, surveyVars, otherVars, series, threshold, last_answer, flagged>>

(* lines 166-169 *)
SameAnswer ==
    /\ hpc = "loop"
    /\ idx <= Len(series)
    /\ PyEq(series[idx], last_answer)
    /\ count' = count + 1
    /\ IF count' > threshold
       THEN hpc' = "true" /\ idx' = idx
       ELSE hpc' = hpc /\ idx' = idx + 1
    /\ UNCHANGED <<filterVars, surveyVars, otherVars, series, threshold, last_answer, flagged>>

(* lines 170-172 *)
OtherAnswer ==
    /\ hpc = "loop"
    /\ idx <= Len(series)
    /\ ~PyEq(series[idx], last_answer)
    /\ count' = 1
    /\ last_answer' = series[idx]
    /\ idx' = idx + 1
    /\ UNCHANGED <<filterVars, surveyVars, otherVars, series, threshold, hpc, flagged>>

(* line 173 *)
ReturnFalse ==
    /\ hpc = "loop"
    /\ idx > Len(series)
    /\ hpc' = "false"
    /\ UNCHANGED <<filterVars, surveyVars, otherVars, series, threshold, idx, count, last_answer, flagged>>

(* flag_consecutive_answers, lines 189-190: the respondent is flagged when *)
(* the check returned True                                                 *)
FlagRow ==
    /\ hpc \in {"true", "false"}
    /\ flagged' = (flagged \/ hpc = "true")
    /\ hpc' = "done"
    /\ UNCHANGED <<filterVars, surveyVars, otherVars, series, threshold, idx, count, last_answer>>

ConsecNext ==
    \/ SameAnswer
    \/ OtherAnswer
    \/ ReturnFalse
    \/ FlagRow

ConsecSpec == ConsecInit /\ [][ConsecNext]_vars

(* the series holds n consecutive equal answers somewhere (n >= 1) *)
HasRun(s, n) ==
    \E i \in 1..(Len(s) - n + 1) :
        /\ s[i] # NaN
        /\ \A j \in i..(i + n - 1) : s[j] = s[i]

(* the length of the stretch of equal answers that ends at position i *)
RunEndingAt(s, i) ==
    IF s[i] = NaN THEN 1
    ELSE CHOOSE n \in 1..i :
             /\ \A j \in (i - n + 1)..i : s[j] = s[i]
             /\ (n = i \/ s[i - n] # s[i])

Decided == hpc \in {"true", "false"}

----------------------------------------------------------------------------
(* SuspiciousUsersChecks.flag_consecutive_answers                          *)
(* (src/modules/QualtricsProcessing.py, lines 175-198).                    *)
(*                                                                         *)
(* merged_df is the row of one respondent (every flag is computed row by   *)
(* row): a function from item columns <<stage, instrument, item>> to the   *)
(* recoded answer, NaN for an item without an answer.  suspicious_df holds *)
(* the flag columns of that respondent.                                    *)

(* the blocks of the survey table, as the number of item columns of each: *)
(* a three-item and a two-item instrument at Baseline, nothing else       *)
FlagBlocks == (<<"Baseline", "GAD7">> :> 3) @@ (<<"Baseline", "PHQ9">> :> 2)

FlagColumns ==
    UNION {{<<pr[1], pr[2], NumStr[i]>> : i \in 1..FlagBlocks[pr]} : pr \in DOMAIN FlagBlocks}

FlagRows == [FlagColumns -> Answers]

ConsecutiveThresholds == {1, DefaultThreshold}

SameAnswerCol(prefix) == <<"Flagged_SameAnswer", prefix>>

ConsecutiveCol(prefix) == <<"Flagged_ConsecutiveSameAnswer", prefix>>

(* row[questionnaire_columns]: the answers of a block in column order *)
RowSeries(row, cols) ==
    [i \in 1..Cardinality(cols) |->
        row[CHOOSE c \in cols : c[3] = NumStr[i]]]

(* DataFrame.nunique(axis=1): the number of distinct values, missing      *)
(* values not counted (dropna=True)                                       *)
nunique_axis1(row, cols) == Cardinality({row[c] : c \in cols} \ {NaN})

(* has_consecutive_answers (lines 159-173) as one function of the series *)
RECURSIVE ConsecutiveLoop(_, _, _, _, _)
ConsecutiveLoop(s, i, cnt, last, thr) ==
    IF i > Len(s) THEN FALSE
    ELSE IF last # None /\ PyEq(s[i], last)
         THEN IF cnt + 1 > thr THEN TRUE ELSE ConsecutiveLoop(s, i + 1, cnt + 1, last, thr)
         ELSE ConsecutiveLoop(s, i + 1, 1, s[i], thr)

has_consecutive_answers(s, thr) == ConsecutiveLoop(s, 1, 0, None, thr)

FlagInit ==
    /\ FilterIdle
    /\ SurveyIdle
    /\ RunIdle
    /\ OthersIdle("flag")
    /\ merged_df \in FlagRows
    /\ consecutive_threshold \in ConsecutiveThresholds
    /\ suspicious_df = <<>>
    /\ at = <<1, 0>>
    /\ log = <<>>

flagRest == <<filterVars, surveyVars, runVars, mergeVars, scriptVars>>

(* lines 177-178: both flags of the stage start as False *)
StartPrefix ==
    /\ at # <<>> /\ at[1] <= Len(prefixes) /\ at[2] = 0
    /\ suspicious_df' =
          Ext(suspicious_df,
              (SameAnswerCol(prefixes[at[1]]) :> FALSE)
              @@ (ConsecutiveCol(prefixes[at[1]]) :> FALSE))
    /\ at' = <<at[1], 1>>
    /\ UNCHANGED <<flagRest, merged_df, consecutive_threshold, log>>

(* lines 180-190: one instrument of the stage that has item columns *)
FlagBlock ==
    /\ at # <<>> /\ at[1] <= Len(prefixes) /\ at[2] \in 1..Len(questionnaires)
    /\ LET prefix == prefixes[at[1]]
           q == questionnaires[at[2]]
           cols == questionnaire_columns(merged_df, prefix, q)
           all_same == nunique_axis1(merged_df, cols) = 1
       IN  /\ cols # {}
           /\ suspicious_df' =
                 [suspicious_df EXCEPT
                    ![SameAnswerCol(prefix)] = @ \/ all_same,
                    ![ConsecutiveCol(prefix)] =
                        IF has_consecutive_answers(RowSeries(merged_df, cols),
                                                   consecutive_threshold)
                        THEN TRUE ELSE @]
    /\ at' = <<at[1], at[2] + 1>>
    /\ UNCHANGED <<flagRest, merged_df, consecutive_threshold, log>>

(* line 181: an instrument without item columns in this stage *)
NoBlock ==
    /\ at # <<>> /\ at[1] <= Len(prefixes) /\ at[2] \in 1..Len(questionnaires)
    /\ questionnaire_columns(merged_df, prefixes[at[1]], questionnaires[at[2]]) = {}
    /\ at' = <<at[1], at[2] + 1>>
    /\ UNCHANGED <<flagRest, merged_df, suspicious_df, consecutive_threshold, log>>

Count(b) == IF b THEN 1 ELSE 0

(* lines 192-196: the two counts of the stage are logged *)
LogCounts ==
    /\ at # <<>> /\ at[1] <= Len(prefixes) /\ at[2] = Len(questionnaires) + 1
    /\ log' = log \o
          << [flag |-> "all same", prefix |-> prefixes[at[1]],
              n |-> Count(suspicious_df[SameAnswerCol(prefixes[at[1]])])],
             [flag |-> "consecutive", prefix |-> prefixes[at[1]],
              n |-> Count(suspicious_df[ConsecutiveCol(prefixes[at[1]])])] >>
    /\ at' = <<at[1] + 1, 0>>
    /\ UNCHANGED <<flagRest, merged_df, suspicious_df, consecutive_threshold>>

FlagNext ==
    \/ StartPrefix
    \/ FlagBlock
    \/ NoBlock
    \/ LogCounts

FlagSpec == FlagInit /\ [][FlagNext]_vars

FlagsReturned == at = <<Len(prefixes) + 1, 0>>

BlocksOf(prefix) == {pr \in DOMAIN FlagBlocks : pr[1] = prefix}

BlockCells(pr) == {merged_df[c] : c \in questionnaire_columns(merged_df, pr[1], pr[2])}

(* every item column of the block holds the same answer, none missing *)
EveryItemSame(pr) == Cardinality(BlockCells(pr)) = 1 /\ NaN \notin BlockCells(pr)

(* C21, as claimed: Flagged_SameAnswer_{stage} is true if and only if      *)
(* there is an instrument of that stage for which every item column holds  *)
(* the same value; a block with some or all items missing does not flag.   *)
(* The code counts the distinct answers of the block without the missing   *)
(* ones, so the answers [1, 1, missing] of a block flag the participant.   *)
C21_EveryItemSame ==
    FlagsReturned =>
        \A a \in DOMAIN prefixes :
            suspicious_df[SameAnswerCol(prefixes[a])]
                <=> \E pr \in BlocksOf(prefixes[a]) : EveryItemSame(pr)

----------------------------------------------------------------------------
(* SuspiciousUsersChecks.flag_ips                                          *)
(* (src/modules/QualtricsProcessing.py, lines 200-218).                    *)
(*                                                                         *)
(* merged_df is a sequence of rows, one per participant (the index, Email, *)
(* is unique after remove_duplicates).  An IP address is the sequence of   *)
(* its octets; a missing address is the empty text.  A column of           *)
(* suspicious_df is a sequence aligned with the rows of merged_df.         *)

IPs == <<"Baseline_IPAddress", "Exit_IPAddress">>

NoIP == <<>>

Addresses ==
    { <<"10", "0", "0", "5">>, <<"10", "0", "0", "9">>, <<"10", "0", "0", "12">>,
      <<"144", "82", "8", "1">>, <<"192", "168", "1", "1">>, NoIP }

BaselineAddresses == { <<"10", "0", "0", "5">>, NoIP }

IpIndex == <<"a@x", "b@x", "c@x">>

IpTables ==
    { [i \in DOMAIN IpIndex |->
          [Email |-> IpIndex[i], Baseline_IPAddress |-> b[i], Exit_IPAddress |-> e[i]]] :
        b \in [DOMAIN IpIndex -> BaselineAddresses], e \in [DOMAIN IpIndex -> Addresses] }

(* line 203: fillna('0.0.0') *)
fillna(x) == IF x = NoIP THEN <<"0", "0", "0">> ELSE x

(* line 204: '.'.join(str(x).split('.')[:3]) *)
FirstThree(x) == SubSeq(x, 1, IF Len(x) < 3 THEN Len(x) ELSE 3)

(* lines 203-204 on the column ip of the table *)
Truncated(tbl, ip) == [i \in DOMAIN tbl |-> [tbl[i] EXCEPT ![ip] = FirstThree(fillna(@))]]

(* list(x.index) of the group of one prefix, in row order *)
RECURSIVE GroupIndex(_, _, _, _)
GroupIndex(tbl, ip, prefix, i) ==
    IF i > Len(tbl) THEN <<>>
    ELSE (IF tbl[i][ip] = prefix THEN <<tbl[i].Email>> ELSE <<>>)
         \o GroupIndex(tbl, ip, prefix, i + 1)

ListSet(xs) == {xs[i] : i \in DOMAIN xs}

(* line 206: len(x.index) > 1 and x.index.nunique() > 1 *)
Shared(emails) == Len(emails) > 1 /\ Cardinality(ListSet(emails)) > 1

(* faulty variant: no prefix is accepted *)
accepted_ips_None == {}

(* line 209 *)
accepted_ips == { <<"0", "0", "0">>, <<"144", "82", "8">> }

(* lines 205-212: the groups of two or more, without the accepted prefixes *)
ip_dict(tbl, ip) ==
    LET keys == {tbl[i][ip] : i \in DOMAIN tbl}
        kept == {k \in keys : Shared(GroupIndex(tbl, ip, k, 1))} \ accepted_ips
    IN  [k \in kept |-> GroupIndex(tbl, ip, k, 1)]

(* line 213 *)
email_to_ip(dict) ==
    LET emails == UNION {IF Cardinality(ListSet(dict[k])) > 1 THEN ListSet(dict[k]) ELSE {} :
                            k \in DOMAIN dict}
    IN  [e \in emails |-> CHOOSE k \in DOMAIN dict : e \in ListSet(dict[k])]

IpInit ==
    /\ FilterIdle
    /\ SurveyIdle
    /\ RunIdle
    /\ OthersIdle("flag")
    /\ merged_df \in IpTables
    /\ suspicious_df = <<>>
    /\ at = <<1>>
    /\ consecutive_threshold = 0
    /\ log = <<>>

FlaggedCol(ip) == <<"Flagged", ip>>

EmailsCol(ip) == <<"Flagged", ip, "Emails">>

CountCol(ip) == <<"Flagged", ip, "Count">>

(* lines 202-217: one pass of the loop over the two address columns *)
FlagStage ==
    /\ Len(at) = 1 /\ at[1] \in DOMAIN IPs
    /\ LET ip == IPs[at[1]]
           tbl == Truncated(merged_df, ip)
           dict == ip_dict(tbl, ip)
           e2i == email_to_ip(dict)
           lists == [i \in DOMAIN tbl |->
                        IF tbl[i].Email \in DOMAIN e2i THEN dict[e2i[tbl[i].Email]] ELSE <<>>]
       IN  /\ merged_df' = tbl
           /\ suspicious_df' =
                 Ext(suspicious_df,
                     (FlaggedCol(ip) :> [i \in DOMAIN tbl |-> tbl[i].Email \in DOMAIN e2i])
                     @@ (EmailsCol(ip) :> lists)
                     @@ (CountCol(ip) :> [i \in DOMAIN tbl |-> Len(lists[i])]))
    /\ at' = <<at[1] + 1>>
    /\ UNCHANGED <<flagRest, consecutive_threshold, log>>

IpNext == FlagStage

IpSpec == IpInit /\ [][IpNext]_vars

(* The first three octets of an address, read off the current table: the *)
(* truncation of a stage already passed keeps them, and a missing address *)
(* has become 0.0.0 (no participant of IpTables has a 0.0.0.x address).   *)
Prefix3(x) == IF x = NoIP THEN <<"0", "0", "0">> ELSE <<x[1], x[2], x[3]>>

(* a known shared institutional network, or no address at all *)
AllowListed(x) == Prefix3(x) \in {<<"144", "82", "8">>, <<"0", "0", "0">>}

SamePrefix(ip, i) == {j \in DOMAIN merged_df : Prefix3(merged_df[j][ip]) = Prefix3(merged_df[i][ip])}

Done(ip) == \E n \in DOMAIN IPs : IPs[n] = ip /\ Len(at) = 1 /\ at[1] > n

InSharedGroup(ip, i) ==
    /\ Cardinality(SamePrefix(ip, i)) >= 2
    /\ ~AllowListed(merged_df[i][ip])

(* C22: for each of the two stages, every member of a group of two or more *)
(* participants sharing the first three octets, the prefix not being on    *)
(* the allow-list, gets the flag, the list of the group's participants and *)
(* a Count equal to the group size; a participant alone in the prefix, in  *)
(* an allow-listed prefix or without an address gets False, an empty list  *)
(* and Count 0.                                                            *)
C22_SharedPrefixFlagged ==
    \A n \in DOMAIN IPs :
        Done(IPs[n]) =>
            \A i \in DOMAIN merged_df :
                LET ip == IPs[n]
                    group == SamePrefix(ip, i)
                IN  IF InSharedGroup(ip, i)
                    THEN /\ suspicious_df[FlaggedCol(ip)][i] = TRUE
                         /\ ListSet(suspicious_df[EmailsCol(ip)][i])
                               = {merged_df[j].Email : j \in group}
                         /\ Len(suspicious_df[EmailsCol(ip)][i]) = Cardinality(group)
                         /\ suspicious_df[CountCol(ip)][i] = Cardinality(group)
                    ELSE /\ suspicious_df[FlaggedCol(ip)][i] = FALSE
                         /\ suspicious_df[EmailsCol(ip)][i] = <<>>
                         /\ suspicious_df[CountCol(ip)][i] = 0

(* three participants at 10.0.0.x at Exit, each with Count 3, while at     *)
(* Baseline one is alone and two are without an address                    *)
C22_Witness ==
    /\ Done("Exit_IPAddress")
    /\ \A i \in DOMAIN merged_df :
          /\ merged_df[i].Exit_IPAddress = <<"10", "0", "0">>
          /\ suspicious_df[FlaggedCol("Exit_IPAddress")][i]
          /\ suspicious_df[CountCol("Exit_IPAddress")][i] = 3
          /\ ~suspicious_df[FlaggedCol("Baseline_IPAddress")][i]
    /\ merged_df[1].Baseline_IPAddress = <<"10", "0", "0">>
    /\ merged_df[2].Baseline_IPAddress = <<"0", "0", "0">>
    /\ merged_df[3].Baseline_IPAddress = <<"0", "0", "0">>

----------------------------------------------------------------------------
(* preprocess_data and map_telegram_to_pid                                 *)
(* (src/preprocessing/preprocess_entries.py, lines 9-70).                  *)
(*                                                                         *)
(* dfu is the roster, dfj the journal table written by the e-mail          *)
(* anonymisation (it carries ParticipantID already), dfs the table of      *)
(* summaries.  A Content is a sequence of tokens; DateTok is a token that  *)
(* ends in a year and a colon, HereAre the phrase "Here are my responses   *)
(* to".                                                                    *)

DateTok == "12 May 2023:"

HereAre == "Here are my responses to"

Roster ==
    << [TelegramID |-> "T1", ParticipantID |-> "P1", StudyGroup |-> "A", Email |-> "Ann@x"],
       [TelegramID |-> "T2", ParticipantID |-> "P2", StudyGroup |-> "B", Email |-> "bob@x"],
       [TelegramID |-> "T3", ParticipantID |-> "P3", StudyGroup |-> "C", Email |-> "cy@x"] >>

(* chat identifiers of entries: two of the roster, one unknown to it, and *)
(* a missing one                                                          *)
EntryTelegramIDs == {"T1", "T2", "T9", NaS}

(* the ParticipantID the e-mail anonymisation has given an entry *)
RosterPid(t) ==
    IF \E i \in DOMAIN Roster : Roster[i].TelegramID = t
    THEN Roster[CHOOSE i \in DOMAIN Roster : Roster[i].TelegramID = t].ParticipantID
    ELSE NaS

JournalRow(n, t) ==
    [ParticipantID |-> RosterPid(t), TelegramID |-> t, JournalTimestamp |-> n,
     JournalUniqueID |-> IF n = 1 THEN "J1" ELSE "J2", EntryType |-> "Good",
     JournalContent |-> IF n = 1 THEN <<DateTok, "none", "ok">>
                        ELSE <<"fine", HereAre, "q1">>]

JournalTables ==
    {<<>>}
    \cup {<<JournalRow(1, t)>> : t \in EntryTelegramIDs}
    \cup {<<JournalRow(1, t), JournalRow(2, u)>> : t \in EntryTelegramIDs, u \in EntryTelegramIDs}
    \cup {<<JournalRow(2, t), JournalRow(1, u)>> : t \in EntryTelegramIDs, u \in EntryTelegramIDs}

SummaryTables ==
    {<<>>}
    \cup {<<[TelegramID |-> t, Timestamp |-> 3, GptSummary |-> <<DateTok, "calm", "day">>]>> :
            t \in EntryTelegramIDs}

(* line 17: dfu.set_index('TelegramID')['ParticipantID'].to_dict() *)
pid_telegram_dict(roster) ==
    [t \in {roster[i].TelegramID : i \in DOMAIN roster} |->
        roster[CHOOSE i \in DOMAIN roster :
                  /\ roster[i].TelegramID = t
                  /\ \A j \in DOMAIN roster : roster[j].TelegramID = t => j <= i].ParticipantID]

(* lines 9-20: Series.map(dict), a key not in the dict gives a missing value *)
map_telegram_to_pid(tbl, roster) ==
    [i \in DOMAIN tbl |->
        [TelegramID |-> tbl[i].TelegramID, Timestamp |-> tbl[i].Timestamp,
         GptSummary |-> tbl[i].GptSummary,
         ParticipantID |-> IF tbl[i].TelegramID \in DOMAIN pid_telegram_dict(roster)
                           THEN pid_telegram_dict(roster)[tbl[i].TelegramID] ELSE NaS]]

(* a row of the merged schema, StudyGroup and TelegramID from the roster *)
MergedRow(u, pid, ts, id, type, entries, content) ==
    [ParticipantID |-> pid, TelegramID |-> u.TelegramID, StudyGroup |-> u.StudyGroup,
     Timestamp |-> ts, JournalUniqueID |-> id, Type |-> type, EntryCount |-> entries,
     Content |-> content]

RECURSIVE Flatten(_)
Flatten(ss) == IF ss = <<>> THEN <<>> ELSE Head(ss) \o Flatten(Tail(ss))

(* lines 40-41 and 47: a journal row renamed, with EntryCount 1 *)
JournalMerged(u, r) ==
    MergedRow(u, r.ParticipantID, r.JournalTimestamp, r.JournalUniqueID, r.EntryType, 1,
              r.JournalContent)

(* lines 44-45 and 48: a summary row renamed and tagged *)
SummaryMerged(u, r) ==
    MergedRow(u, r.ParticipantID, r.Timestamp, NaS, "Summary", NaN, r.GptSummary)

(* pd.merge(dfu, tbl, on='TelegramID', how='left'): every roster row, once *)
(* per matching row of tbl, or once with missing values when none matches; *)
(* a row of tbl that matches no roster row is not in the result.  tbl is   *)
(* the journal table (source "journal") or the table of summaries.         *)
LeftMerge(roster, tbl, source) ==
    Flatten([i \in DOMAIN roster |->
        LET hits == SelectSeq(tbl, LAMBDA r : r.TelegramID = roster[i].TelegramID)
        IN  IF hits = <<>>
            THEN <<MergedRow(roster[i], NaS, NaN, NaS, NaS, NaN, <<>>)>>
            ELSE [k \in DOMAIN hits |->
                    IF source = "journal" THEN JournalMerged(roster[i], hits[k])
                    ELSE SummaryMerged(roster[i], hits[k])]])

(* line 53: dropna(subset=cols_to_check, how='all') *)
AllMissing(r) ==
    /\ r.Timestamp = NaN /\ r.JournalUniqueID = NaS /\ r.Type = NaS
    /\ r.Content = <<>> /\ r.EntryCount = NaN

(* lines 55-57 on the tokens of a Content *)
RECURSIVE DropNoneAfterDate(_)
DropNoneAfterDate(c) ==
    IF Len(c) < 2 THEN c
    ELSE IF c[1] = DateTok /\ c[2] = "none" THEN <<DateTok>> \o DropNoneAfterDate(Tail(Tail(c)))
    ELSE <<c[1]>> \o DropNoneAfterDate(Tail(c))

RECURSIVE DropThroughDate(_, _)
DropThroughDate(c, i) ==
    IF i > Len(c) THEN c
    ELSE IF c[i] = DateTok THEN SubSeq(c, i + 1, Len(c))
    ELSE DropThroughDate(c, i + 1)

RECURSIVE DropFromHereAre(_)
DropFromHereAre(c) ==
    IF c = <<>> \/ Head(c) = HereAre THEN <<>> ELSE <<Head(c)>> \o DropFromHereAre(Tail(c))

CleanContent(c) == DropFromHereAre(DropThroughDate(DropNoneAfterDate(c), 1))

(* DataFrame.sort_values(by=col), line 65; the values of the column are   *)
(* distinct in every table it is applied to here                          *)
RECURSIVE sort_values(_, _)
sort_values(tbl, by) ==
    IF tbl = <<>> THEN <<>>
    ELSE LET m == CHOOSE i \in DOMAIN tbl : \A j \in DOMAIN tbl : tbl[i][by] <= tbl[j][by]
         IN  <<tbl[m]>> \o sort_values(SubSeq(tbl, 1, m - 1) \o SubSeq(tbl, m + 1, Len(tbl)), by)

MergeInit ==
    /\ FilterIdle
    /\ SurveyIdle
    /\ RunIdle
    /\ OthersIdle("merge")
    /\ dfu = Roster
    /\ dfj \in JournalTables
    /\ dfs \in SummaryTables
    /\ dfujs = <<>>
    /\ mpc = "call"

mergeRest == <<filterVars, surveyVars, runVars, flagVars, scriptVars>>

(* lines 23-67 *)
preprocess_data ==
    /\ mpc = "call"
    /\ LET dfuj == LeftMerge(dfu, dfj, "journal")
           dfus == LeftMerge(dfu, map_telegram_to_pid(dfs, dfu), "summary")
           kept == SelectSeq(dfuj \o dfus, LAMBDA r : ~AllMissing(r))
       IN  dfujs' = sort_values([i \in DOMAIN kept |->
                                   [kept[i] EXCEPT !.Content = CleanContent(@)]], "Timestamp")
    /\ mpc' = "ret"
    /\ UNCHANGED <<mergeRest, dfu, dfj, dfs>>

MergeNext == preprocess_data

MergeSpec == MergeInit /\ [][MergeNext]_vars

Unmatched(t) == \A i \in DOMAIN dfu : dfu[i].TelegramID # t

JournalIn(r, tbl) ==
    \E k \in DOMAIN tbl :
        /\ tbl[k].JournalUniqueID = r.JournalUniqueID
        /\ Unmatched(r.TelegramID) => tbl[k].ParticipantID = NaS

SummaryIn(r, tbl) ==
    \E k \in DOMAIN tbl :
        /\ tbl[k].Type = "Summary" /\ tbl[k].Timestamp = r.Timestamp
        /\ Unmatched(r.TelegramID) => tbl[k].ParticipantID = NaS

(* C23, as claimed: preprocess_data loses no entry: every journal entry    *)
(* and every summary of its inputs is in the merged table, one whose       *)
(* TelegramID has no match in the roster with a missing ParticipantID.     *)
(* The code joins from the roster (how='left'), so an entry whose          *)
(* TelegramID is not in the roster is in no row of the result.             *)
C23_NoEntryLost ==
    mpc = "ret" =>
        /\ \A i \in DOMAIN dfj : JournalIn(dfj[i], dfujs)
        /\ \A i \in DOMAIN dfs : SummaryIn(dfs[i], dfujs)

----------------------------------------------------------------------------
(* The e-mail anonymisation script                                         *)
(* (src/preprocessing/anonymise_emails.py, lines 10-27 and 30-70).         *)
(*                                                                         *)
(* files holds tsj_journals_saved.csv ("raw"), the snapshot                *)
(* 1_journals_anon_email.csv ("1") and config/email_pid.json; the roster   *)
(* tsj_usertable.csv is Roster.  Between runs the bot pull appends entries *)
(* to the raw table.  The pull the script itself would start (lines 33-41) *)
(* names a file, pullBotData.py, that the repository does not have, and    *)
(* check=False ignores the failure: it changes nothing.  stdout holds what *)
(* the last run printed.                                                   *)

MaxRaw == 3

JournalIds == <<"J1", "J2", "J3", "J4", "J5">>

RawId(n) == JournalIds[n]

(* the n-th entry the bot saves: from a participant of the roster or from *)
(* a chat the roster does not know, stamped early or late                 *)
RawEntry(n, t, late) ==
    [TelegramID |-> t, JournalTimestamp |-> IF late THEN 100 - n ELSE n,
     JournalUniqueID |-> RawId(n), EntryType |-> "Good", JournalContent |-> <<"ok">>]

(* str.lower() of the roster's e-mail addresses *)
Lower(e) == IF e = "Ann@x" THEN "ann@x" ELSE e

(* lines 10-27: the left merge on TelegramID adds ParticipantID to every  *)
(* row of df, missing where the roster has no such TelegramID             *)
map_email_to_pid(tbl, roster) ==
    Flatten([i \in DOMAIN tbl |->
        LET hits == SelectSeq(roster, LAMBDA u : u.TelegramID = tbl[i].TelegramID)
        IN  IF hits = <<>>
            THEN <<[ParticipantID |-> NaS, TelegramID |-> tbl[i].TelegramID,
                    JournalTimestamp |-> tbl[i].JournalTimestamp,
                    JournalUniqueID |-> tbl[i].JournalUniqueID,
                    EntryType |-> tbl[i].EntryType, JournalContent |-> tbl[i].JournalContent]>>
            ELSE [k \in DOMAIN hits |->
                    [ParticipantID |-> hits[k].ParticipantID, TelegramID |-> tbl[i].TelegramID,
                     JournalTimestamp |-> tbl[i].JournalTimestamp,
                     JournalUniqueID |-> tbl[i].JournalUniqueID,
                     EntryType |-> tbl[i].EntryType, JournalContent |-> tbl[i].JournalContent]]])

(* lines 24-26: the dict written to config/email_pid.json *)
email_pid(roster) ==
    [e \in {Lower(roster[i].Email) : i \in DOMAIN roster} |->
        roster[CHOOSE i \in DOMAIN roster : Lower(roster[i].Email) = e].ParticipantID]

IdsOf(tbl) == {tbl[i].JournalUniqueID : i \in DOMAIN tbl}

(* faulty variant: the processed entries are not excluded *)
NewEntries_All(tbl, snapshot) == tbl

(* lines 49-52: the raw entries whose JournalUniqueID is not in the       *)
(* snapshot, all of them when there is no snapshot                        *)
NewEntries(tbl, snapshot) ==
    IF snapshot.exists
    THEN SelectSeq(tbl, LAMBDA r : r.JournalUniqueID \notin IdsOf(snapshot.rows))
    ELSE tbl

EmailInit ==
    /\ FilterIdle
    /\ SurveyIdle
    /\ RunIdle
    /\ OthersIdle("script")
    /\ files = ("raw" :> File(<<>>)) @@ ("1" :> Absent) @@ ("email_pid.json" :> Absent)
    /\ stdout = <<>>
    /\ proc = [script |-> "anonymise_emails", ran |-> FALSE]

scriptRest == <<filterVars, surveyVars, runVars, flagVars, mergeVars>>

(* pull_bot_data.py between two runs: one more entry in the raw table *)
Pull ==
    /\ proc.script = "anonymise_emails"
    /\ Len(files["raw"].rows) < MaxRaw
    /\ \E t \in {"T1", "T9"}, late \in BOOLEAN :
          files' = [files EXCEPT !["raw"] =
                       File(@.rows \o <<RawEntry(Len(@.rows) + 1, t, late)>>)]
    /\ UNCHANGED <<scriptRest, stdout, proc>>

(* lines 43-57: a run that finds nothing new prints so and exits with 0 *)
NoNewData ==
    /\ proc.script = "anonymise_emails"
    /\ map_email_to_pid(NewEntries(files["raw"].rows, files["1"]), Roster) = <<>>
    /\ files' = [files EXCEPT !["email_pid.json"] = File(<<email_pid(Roster)>>)]
    /\ stdout' = <<"No new data to process.">>
    /\ proc' = [proc EXCEPT !.ran = TRUE]
    /\ UNCHANGED scriptRest

(* lines 43-70: a run that finds new entries appends them to the snapshot, *)
(* sorts it by JournalTimestamp and writes it                              *)
ExportSnapshot ==
    /\ proc.script = "anonymise_emails"
    /\ LET dfx == map_email_to_pid(NewEntries(files["raw"].rows, files["1"]), Roster)
       IN  /\ dfx # <<>>
           /\ files' = [files EXCEPT
                 !["email_pid.json"] = File(<<email_pid(Roster)>>),
                 !["1"] = File(sort_values((IF @.exists THEN @.rows ELSE <<>>) \o dfx,
                                           "JournalTimestamp"))]
    /\ stdout' = <<"File exported to 1_journals_anon_email.csv.">>
    /\ proc' = [proc EXCEPT !.ran = TRUE]
    /\ UNCHANGED scriptRest

EmailNext ==
    \/ Pull
    \/ NoNewData
    \/ ExportSnapshot

EmailSpec == EmailInit /\ [][EmailNext]_vars

(* how many rows of the table carry the JournalUniqueID *)
Occurrences(tbl, id) == Cardinality({i \in DOMAIN tbl : tbl[i].JournalUniqueID = id})

(* the step is a run of the script: the raw table is the same before and  *)
(* after, and the script has printed its line                             *)
EmailRun == files'["raw"] = files["raw"] /\ stdout' # <<>> /\ proc'.ran

(* C24: after a run of anonymise_emails over a raw table that only grows   *)
(* between runs (unique JournalUniqueID and roster TelegramID values) the  *)
(* snapshot holds every raw JournalUniqueID exactly once and nothing else, *)
(* and a run that finds no new raw entry leaves the snapshot unchanged.    *)
C24_SnapshotDuplicateFree ==
    [][EmailRun =>
          /\ \A i \in DOMAIN files["raw"].rows :
                Occurrences(files'["1"].rows, files["raw"].rows[i].JournalUniqueID) = 1
          /\ IdsOf(files'["1"].rows) \subseteq IdsOf(files["raw"].rows)
          /\ (IdsOf(files["raw"].rows) \subseteq IdsOf(files["1"].rows))
                => files'["1"] = files["1"]]_vars

(* three entries arrived over three runs, the middle one from a chat the   *)
(* roster does not know and stamped late; a fourth run found nothing new   *)
C24_Witness ==
    /\ proc = [script |-> "anonymise_emails", ran |-> TRUE]
    /\ stdout = <<"No new data to process.">>
    /\ Len(files["raw"].rows) = 3
    /\ Len(files["1"].rows) = 3
    /\ [i \in 1..3 |-> files["1"].rows[i].JournalUniqueID] = <<RawId(1), RawId(3), RawId(2)>>
    /\ files["1"].rows[3].ParticipantID = NaS
    /\ files["1"].rows[1].ParticipantID = "P1"

----------------------------------------------------------------------------
(* The content anonymisation script                                        *)
(* (src/preprocessing/anonymise_content.py, lines 82-121 and 124-176).     *)
(*                                                                         *)
(* files holds 2_journals_preprocessed.csv ("2") and the two snapshots     *)
(* 4_journals_anon_content_both.csv ("4") and                              *)
(* 5_journals_anon_content_only.csv ("5").  proc holds the position of the *)
(* script and its local variables: dfj (each row with its index label),    *)
(* dfj_processed (bound only when the snapshot existed at the start),      *)
(* counter and the loop position i.  A JournalAnonymised that is not set   *)
(* is the empty text, which is also what a missing cell of the CSV is.     *)
(* Between runs the preprocessing appends rows to "2".                     *)

MaxPreprocessed == 3

(* the words the NER pipeline reports as entities, with their group *)
Entities == ("Anna" :> "[PER]") @@ ("Bot" :> "[PER]") @@ ("Leeds" :> "[LOC]")

(* line 134 with use_mystical_words = False *)
ignore_list == {"bot", "boti"}

LowerWord(w) == IF w = "Bot" THEN "bot" ELSE w

(* lines 82-99: every entity that is not on the ignore list becomes its tag *)
anonymise_sentence(sentence) ==
    [k \in DOMAIN sentence |->
        IF sentence[k] \in DOMAIN Entities /\ LowerWord(sentence[k]) \notin ignore_list
        THEN Entities[sentence[k]] ELSE sentence[k]]

(* the n-th row of the preprocessed table: an entry, an entry without     *)
(* Content, or a summary (which has no JournalUniqueID)                   *)
PreprocessedRow(n, kind) ==
    [JournalUniqueID |-> IF kind = "summary" THEN NaS ELSE RawId(n),
     Timestamp |-> n,
     Type |-> IF kind = "summary" THEN "Summary" ELSE "Good",
     Content |-> CASE kind = "entry" -> <<"Anna", "met", "Bot", "in", "Leeds">>
                   [] kind = "empty" -> <<>>
                   [] kind = "summary" -> <<"Anna", "was", "calm">>]

Unbound == [bound |-> FALSE, rows |-> <<>>]

Bound(tbl) == [bound |-> TRUE, rows |-> tbl]

Idle == [script |-> "anonymise_content", pc |-> "idle", dfj |-> <<>>,
         dfj_processed |-> Unbound, counter |-> 0, i |-> 0]

ContentInit ==
    /\ FilterIdle
    /\ SurveyIdle
    /\ RunIdle
    /\ OthersIdle("script")
    /\ \E snapshot \in {Absent, File(<<>>)} :
          files = ("2" :> File(<<>>)) @@ ("4" :> snapshot) @@ ("5" :> Absent)
    /\ stdout = <<>>
    /\ proc = Idle

Running == proc.script = "anonymise_content" /\ proc.pc = "loop"

NotRunning == proc.script = "anonymise_content" /\ proc.pc \in {"idle", "exit", "raised"}

(* preprocess_entries.py between two runs: one more row in "2" *)
Preprocessed ==
    /\ NotRunning
    /\ Len(files["2"].rows) < MaxPreprocessed
    /\ \E kind \in {"entry", "empty", "summary"} :
          files' = [files EXCEPT !["2"] =
                       File(@.rows \o <<PreprocessedRow(Len(@.rows) + 1, kind)>>)]
    /\ UNCHANGED <<scriptRest, stdout, proc>>

(* dfj as read from "2", each row with its index label *)
Labelled(tbl) ==
    [k \in DOMAIN tbl |->
        [index |-> k - 1, JournalUniqueID |-> tbl[k].JournalUniqueID,
         Timestamp |-> tbl[k].Timestamp, Type |-> tbl[k].Type, Content |-> tbl[k].Content,
         JournalAnonymised |-> <<>>]]

(* faulty variant: the journal ids of the snapshot are not looked at *)
identify_new_journals_None(dfj_processed) == {}

(* lines 116-121 *)
identify_new_journals(dfj_processed) ==
    {dfj_processed[k].JournalUniqueID : k \in DOMAIN dfj_processed}

(* lines 128-141: the script starts, reads "2" and, when the snapshot     *)
(* exists, keeps the rows whose JournalUniqueID is not in it              *)
Start ==
    /\ NotRunning
    /\ LET all == Labelled(files["2"].rows)
           journal_ids == identify_new_journals(files["4"].rows)
           new == SelectSeq(all, LAMBDA r : r.JournalUniqueID \notin journal_ids)
       IN  IF files["4"].exists
           THEN /\ proc' = [Idle EXCEPT !.pc = "loop", !.dfj = new,
                                        !.dfj_processed = Bound(files["4"].rows), !.i = 1]
                /\ stdout' = <<[line |-> "Processing new rows", n |-> Len(new)]>>
           ELSE /\ proc' = [Idle EXCEPT !.pc = "loop", !.dfj = all, !.i = 1]
                /\ stdout' = <<>>
    /\ UNCHANGED <<scriptRest, files>>

(* lines 145-153: one row anonymised *)
AnonymiseRow ==
    /\ Running /\ proc.i <= Len(proc.dfj)
    /\ proc.dfj[proc.i].Content # <<>>
    /\ proc' = [proc EXCEPT !.counter = @ + 1, !.i = @ + 1,
                   !.dfj[proc.i].JournalAnonymised =
                       anonymise_sentence(proc.dfj[proc.i].Content)]
    /\ stdout' = IF (proc.counter + 1) % 10 = 0
                 THEN Append(stdout, [line |-> "Processed rows", n |-> proc.counter + 1])
                 ELSE stdout
    /\ UNCHANGED <<scriptRest, files>>

(* faulty variant: the exception ends the run *)
RowError_Abort ==
    /\ Running /\ proc.i <= Len(proc.dfj)
    /\ proc' = [proc EXCEPT !.counter = @ + 1, !.pc = "raised"]
    /\ UNCHANGED <<scriptRest, files, stdout>>

(* lines 145-157: the pipeline raises on the row (it does on a missing    *)
(* Content, and may on any text); the error is printed with the row's     *)
(* index and the loop goes on                                             *)
RowError ==
    /\ Running /\ proc.i <= Len(proc.dfj)
    /\ proc' = [proc EXCEPT !.counter = @ + 1, !.i = @ + 1]
    /\ stdout' = Append(stdout, [line |-> "Error processing row", n |-> proc.dfj[proc.i].index])
    /\ UNCHANGED <<scriptRest, files>>

Unlabelled(tbl) ==
    [k \in DOMAIN tbl |->
        [JournalUniqueID |-> tbl[k].JournalUniqueID, Timestamp |-> tbl[k].Timestamp,
         Type |-> tbl[k].Type, Content |-> tbl[k].Content,
         JournalAnonymised |-> tbl[k].JournalAnonymised]]

(* line 173: drop(columns=['Content']) *)
DropContent(tbl) ==
    [k \in DOMAIN tbl |->
        [JournalUniqueID |-> tbl[k].JournalUniqueID, Timestamp |-> tbl[k].Timestamp,
         Type |-> tbl[k].Type, JournalAnonymised |-> tbl[k].JournalAnonymised]]

(* lines 159-176 when the snapshot exists: the new rows are appended, the *)
(* table is sorted by Timestamp and both snapshots are written            *)
Export ==
    /\ Running /\ proc.i > Len(proc.dfj)
    /\ files["4"].exists
    /\ LET dfj_processed ==
              sort_values(proc.dfj_processed.rows \o Unlabelled(proc.dfj), "Timestamp")
       IN  /\ files' = [files EXCEPT !["4"] = File(dfj_processed),
                                     !["5"] = File(DropContent(dfj_processed))]
           /\ proc' = [proc EXCEPT !.pc = "exit", !.dfj_processed = Bound(dfj_processed)]
    /\ stdout' = stdout \o <<[line |-> "File exported", n |-> 4],
                             [line |-> "File exported", n |-> 5]>>
    /\ UNCHANGED scriptRest

(* lines 159-173 when the snapshot does not exist: the block that binds   *)
(* and writes dfj_processed is skipped and line 173 reads the unbound     *)
(* name: NameError, nothing is written                                    *)
NameError ==
    /\ Running /\ proc.i > Len(proc.dfj)
    /\ ~files["4"].exists
    /\ ~proc.dfj_processed.bound
    /\ proc' = [proc EXCEPT !.pc = "raised"]
    /\ UNCHANGED <<scriptRest, files, stdout>>

ContentNext ==
    \/ Preprocessed
    \/ Start
    \/ AnonymiseRow
    \/ RowError
    \/ Export
    \/ NameError

ContentSpec == ContentInit /\ [][ContentNext]_vars

(* the script is at a row of the loop of lines 145-157 *)
AtRow == Running /\ proc.i <= Len(proc.dfj)

LoopDone == Running /\ proc.i > Len(proc.dfj)

ErrorLine(r) == [line |-> "Error processing row", n |-> r.index]

ErrorLogged(r) == \E k \in DOMAIN stdout : stdout[k] = ErrorLine(r)

(* C25: an exception raised while anonymising one entry is logged with     *)
(* that row's identifier, leaves that row's JournalAnonymised unset and    *)
(* does not keep any later row of the run from being anonymised: every     *)
(* step at a row either sets the row's JournalAnonymised or logs the row   *)
(* and leaves it unset, and in both cases the loop moves to the next row;  *)
(* when the loop is through, every row is anonymised or logged.            *)
C25_RowErrorIsolated ==
    /\ [][AtRow =>
            /\ proc'.pc = "loop" /\ proc'.i = proc.i + 1
            /\ \A k \in DOMAIN proc.dfj : k # proc.i => proc'.dfj[k] = proc.dfj[k]
            /\ \/ /\ proc'.dfj[proc.i].JournalAnonymised # <<>>
                  /\ stdout' = stdout
               \/ /\ proc'.dfj[proc.i].JournalAnonymised = <<>>
                  /\ stdout' = Append(stdout, ErrorLine(proc.dfj[proc.i]))]_vars
    /\ [](LoopDone =>
            \A k \in DOMAIN proc.dfj :
                proc.dfj[k].JournalAnonymised # <<>> \/ ErrorLogged(proc.dfj[k]))

(* the first row of a run raised, the second was anonymised all the same *)
C25_Witness ==
    /\ LoopDone
    /\ Len(proc.dfj) = 2
    /\ proc.dfj[1].Content # <<>>
    /\ proc.dfj[1].JournalAnonymised = <<>>
    /\ stdout[Len(stdout)] = ErrorLine(proc.dfj[1])
    /\ proc.dfj[2].JournalAnonymised = <<"[PER]", "met", "Bot", "in", "[LOC]">>

Ended == proc.script = "anonymise_content" /\ proc.pc \in {"exit", "raised"}

(* C26, as claimed: a run that starts without the snapshot                 *)
(* 4_journals_anon_content_both.csv anonymises every preprocessed entry    *)
(* and writes both snapshots, so whenever a run has ended both files       *)
(* exist.  In the code the run ends with a NameError and no file.          *)
C26_FirstRunWritesSnapshots == Ended => files["4"].exists /\ files["5"].exists

SnapshotRow(tbl, r) ==
    \E k \in DOMAIN tbl :
        /\ tbl[k].Timestamp = r.Timestamp
        /\ tbl[k].JournalUniqueID = r.JournalUniqueID
        /\ tbl[k].JournalAnonymised = r.JournalAnonymised

(* C29: an entry whose JournalUniqueID is in the processed snapshot is     *)
(* never anonymised again: no run visits a row whose id is in the          *)
(* snapshot, a row of the snapshot stays in it with the JournalAnonymised  *)
(* it has (a missing one stays missing), and the rows of a run, the ones   *)
(* that raised included, are appended as they are when the run exports.    *)
C29_ProcessedNeverRedone ==
    [][/\ AtRow => proc.dfj[proc.i].JournalUniqueID \notin IdsOf(files["4"].rows)
       /\ \A k \in DOMAIN files["4"].rows : SnapshotRow(files'["4"].rows, files["4"].rows[k])
       /\ (LoopDone /\ proc'.pc = "exit") =>
             \A k \in DOMAIN proc.dfj : SnapshotRow(files'["4"].rows, proc.dfj[k])]_vars

(* an entry with a Content is in the snapshot without a JournalAnonymised, *)
(* and a later run has found nothing new and exported                      *)
C29_Witness ==
    /\ proc.script = "anonymise_content" /\ proc.pc = "exit"
    /\ stdout[1] = [line |-> "Processing new rows", n |-> 0]
    /\ \E k \in DOMAIN files["4"].rows :
          /\ files["4"].rows[k].JournalUniqueID = "J1"
          /\ files["4"].rows[k].Content # <<>>
          /\ files["4"].rows[k].JournalAnonymised = <<>>
    /\ Len(files["2"].rows) = Len(files["4"].rows)

----------------------------------------------------------------------------
(* GoogleSheetHandler.get_dataframe and attempt_request                    *)
(* (src/modules/GoogleSheetHandler.py, lines 16-17 and 78-90).             *)
(*                                                                         *)
(* proc holds the call: the spreadsheet (its worksheets' records), the     *)
(* sheet_number asked for, retry_count, the number of calls of the wrapped *)
(* request made so far, the seconds slept, the message of the last         *)
(* exception and the value get_dataframe returns.  stdout is the log.      *)
(* Whether a request succeeds, hits a rate limit or fails otherwise is the *)
(* service's choice.                                                       *)

Worksheets ==
    { <<sheet0, <<[Email |-> "b@x"]>>, <<>>>> :
        sheet0 \in {<<>>, <<[Email |-> "a@x"]>>, <<[Email |-> "a@x"], [Email |-> "c@x"]>>} }

(* an exception message, as the phrases it is made of *)
Messages ==
    { <<"Quota exceeded for", "quota", "metric">>,
      <<"429", "RATE_LIMIT_EXCEEDED">>,
      <<"The", "service is currently unavailable">>,
      <<"Quota exceeded">>,
      <<"PermissionError">> }

(* faulty variant: every exception counts as a rate limit *)
RateLimit_Any(error_message) == TRUE

(* line 85: one of the three phrases is in str(e) *)
RateLimit(error_message) ==
    \E k \in DOMAIN error_message :
        error_message[k] \in {"quota", "RATE_LIMIT_EXCEEDED", "service is currently unavailable"}

NoValue == [kind |-> "None", rows |-> <<>>]

Records(rows) == [kind |-> "list", rows |-> rows]

(* pd.DataFrame(data): no data gives the empty table *)
DataFrame(data) == IF data.kind = "None" THEN <<>> ELSE data.rows

RetryInit ==
    /\ FilterIdle
    /\ SurveyIdle
    /\ RunIdle
    /\ OthersIdle("script")
    /\ files = <<>>
    /\ stdout = <<>>
    /\ \E sheet \in Worksheets, sheet_number \in 1..3 :
          proc = [script |-> "get_dataframe", pc |-> "while", sheet |-> sheet,
                  sheet_number |-> sheet_number, retry_count |-> 0, calls |-> 0,
                  slept |-> 0, error_message |-> <<>>, df |-> <<>>]

Attempting == proc.script = "get_dataframe" /\ proc.pc = "while" /\ proc.retry_count < 3

(* lines 17 and 82: the request returns the records of the worksheet      *)
(* sheet_number - 1 (worksheets are counted from 0), get_dataframe makes  *)
(* a table of them                                                        *)
RequestReturns ==
    /\ Attempting
    /\ proc' = [proc EXCEPT !.calls = @ + 1, !.pc = "returned",
                   !.df = DataFrame(Records(proc.sheet[(proc.sheet_number - 1) + 1]))]
    /\ UNCHANGED <<scriptRest, files, stdout>>

(* lines 83-88: a rate-limit error is logged, 30 seconds are slept and    *)
(* retry_count goes up                                                    *)
RateLimitError ==
    /\ Attempting
    /\ \E e \in Messages :
          /\ RateLimit(e)
          /\ proc' = [proc EXCEPT !.calls = @ + 1, !.error_message = e,
                         !.slept = @ + 30, !.retry_count = @ + 1]
    /\ stdout' = Append(stdout, "Request rate limit exceeded. Retrying in 30 seconds...")
    /\ UNCHANGED <<scriptRest, files>>

(* lines 83-90: any other exception is raised again *)
OtherException ==
    /\ Attempting
    /\ \E e \in Messages :
          /\ ~RateLimit(e)
          /\ proc' = [proc EXCEPT !.calls = @ + 1, !.error_message = e, !.pc = "raised"]
    /\ UNCHANGED <<scriptRest, files, stdout>>

(* faulty variant: the exhausted loop raises the last error *)
LoopExhausted_Raises ==
    /\ proc.script = "get_dataframe" /\ proc.pc = "while" /\ proc.retry_count >= 3
    /\ proc' = [proc EXCEPT !.pc = "raised"]
    /\ UNCHANGED <<scriptRest, files, stdout>>

(* lines 80 and 17: the loop ends after the third retry, attempt_request  *)
(* returns None and get_dataframe makes a table of it                     *)
LoopExhausted ==
    /\ proc.script = "get_dataframe" /\ proc.pc = "while" /\ proc.retry_count >= 3
    /\ proc' = [proc EXCEPT !.pc = "returned", !.df = DataFrame(NoValue)]
    /\ UNCHANGED <<scriptRest, files, stdout>>

RetryNext ==
    \/ RequestReturns
    \/ RateLimitError
    \/ OtherException
    \/ LoopExhausted

RetrySpec == RetryInit /\ [][RetryNext]_vars

(* the three kinds of error the claim names, by the phrase in the message *)
NamedError(e) ==
    \/ \E k \in DOMAIN e : e[k] = "quota"
    \/ \E k \in DOMAIN e : e[k] = "RATE_LIMIT_EXCEEDED"
    \/ \E k \in DOMAIN e : e[k] = "service is currently unavailable"

(* C27: attempt_request calls the wrapped request at most 3 times; it      *)
(* returns the result of the first call that succeeds; it makes another    *)
(* attempt, after a wait of 30 seconds, only when the previous one failed  *)
(* with a rate-limit, quota or service-unavailable error; any other        *)
(* exception is raised at once, without a further attempt.                 *)
C27_BoundedRetry ==
    /\ [](proc.calls <= 3 /\ proc.slept = 30 * proc.retry_count)
    /\ []((proc.pc = "while" /\ proc.calls > 0) =>
             NamedError(proc.error_message) /\ proc.calls = proc.retry_count)
    /\ []((proc.pc = "returned" /\ proc.calls > proc.retry_count) =>
             proc.df = proc.sheet[proc.sheet_number])
    /\ [](proc.pc = "raised" =>
             ~NamedError(proc.error_message) /\ proc.calls = proc.retry_count + 1)
    /\ [][proc.pc # "while" => UNCHANGED proc]_vars
    /\ [][proc'.calls > proc.calls =>
             proc.pc = "while" /\ proc'.calls = proc.calls + 1
             /\ (proc.calls > 0 => NamedError(proc.error_message))]_vars

(* two rate-limit errors, then the third call returns the records *)
C27_Witness ==
    /\ proc.script = "get_dataframe" /\ proc.pc = "returned"
    /\ proc.calls = 3 /\ proc.retry_count = 2 /\ proc.slept = 60
    /\ proc.sheet_number = 1
    /\ proc.df = <<[Email |-> "a@x"], [Email |-> "c@x"]>>

RetriesExhausted == proc.pc = "returned" /\ proc.retry_count = 3

(* C28: when all 3 attempts fail with rate-limit errors attempt_request    *)
(* returns None without raising, and get_dataframe hands its caller the    *)
(* empty table, which is what it hands over for a worksheet without        *)
(* records.                                                                *)
C28_ExhaustionLooksEmpty ==
    /\ (proc.pc = "while" /\ proc.retry_count = 3) => proc.calls = 3
    /\ (proc.pc \in {"returned", "raised"} /\ proc.retry_count = 3) =>
          proc.pc = "returned" /\ proc.df = DataFrame(Records(<<>>))
    /\ (proc.pc = "returned" /\ proc.sheet[proc.sheet_number] = <<>>) =>
          proc.df = <<>>

(* the worksheet has records, all three calls hit the rate limit and the  *)
(* caller holds an empty table                                            *)
C28_Witness ==
    /\ proc.script = "get_dataframe"
    /\ RetriesExhausted
    /\ proc.calls = 3
    /\ proc.sheet[proc.sheet_number] = <<[Email |-> "b@x"]>>
    /\ proc.df = <<>>

----------------------------------------------------------------------------
(* The pipeline runner (src/preprocessing/_main.py, lines 19-50).          *)
(*                                                                         *)
(* files tells which scripts are in the preprocessing directory.  proc     *)
(* holds the position of run_scripts: the index k of the loop over         *)
(* SCRIPTS, the scripts started so far with the return code of each one    *)
(* that has ended, and the exit status of the runner once it has exited.   *)
(* The return code of a script is the script's choice; a negative one is   *)
(* a script killed by a signal.                                            *)

SCRIPTS ==
    << "pull_bot_data.py", "pull_qualtrics_data.py", "preprocess_qualtrics.py",
       "anonymise_emails.py", "preprocess_entries.py", "anonymise_content.py",
       "tokenize_sentences.py", "merge_qual_with_anon_jours.py", "update_status.py",
       "study_group.py", "filter_by_status.py" >>

ReturnCodes == {0, 1, 2, 3, 255, -9}

(* the status a process ends with on sys.exit(n): the low eight bits *)
ExitStatus(n) == n % 256

(* the directory holds every script, or every script but one *)
Directories ==
    {[k \in DOMAIN SCRIPTS |-> File(<<>>)]}
    \cup {[k \in DOMAIN SCRIPTS |-> IF k = m THEN Absent ELSE File(<<>>)] : m \in DOMAIN SCRIPTS}

RunnerInit ==
    /\ FilterIdle
    /\ SurveyIdle
    /\ RunIdle
    /\ OthersIdle("script")
    /\ files \in Directories
    /\ stdout = <<"Python executable", "Repo root">>
    /\ proc = [script |-> "_main", pc |-> "for", k |-> 1, started |-> <<>>,
               returncodes |-> <<>>, status |-> 0]

InLoop == proc.script = "_main" /\ proc.pc = "for" /\ proc.k <= Len(SCRIPTS)

(* lines 40-42: the script is not a file *)
MissingScript ==
    /\ InLoop
    /\ ~files[proc.k].exists
    /\ stdout' = Append(stdout, "Missing script")
    /\ proc' = [proc EXCEPT !.pc = "exited", !.status = ExitStatus(2)]
    /\ UNCHANGED <<scriptRest, files>>

(* lines 43-47: the script is started and run_scripts waits for it *)
StartScript ==
    /\ InLoop
    /\ files[proc.k].exists
    /\ stdout' = Append(stdout, "=> Running")
    /\ proc' = [proc EXCEPT !.pc = "wait", !.started = Append(@, SCRIPTS[proc.k])]
    /\ UNCHANGED <<scriptRest, files>>

(* faulty variant: the return code is not looked at *)
ScriptExits_Ignored ==
    /\ proc.script = "_main" /\ proc.pc = "wait"
    /\ \E returncode \in ReturnCodes :
          proc' = [proc EXCEPT !.returncodes = Append(@, returncode),
                               !.pc = "for", !.k = @ + 1]
    /\ UNCHANGED <<scriptRest, files, stdout>>

(* lines 47-50: the script ends; on a return code other than 0 the runner *)
(* prints the failure and exits with that code                            *)
ScriptExits ==
    /\ proc.script = "_main" /\ proc.pc = "wait"
    /\ \E returncode \in ReturnCodes :
          IF returncode # 0
          THEN /\ stdout' = Append(stdout, "Failed")
               /\ proc' = [proc EXCEPT !.returncodes = Append(@, returncode),
                                       !.pc = "exited", !.status = ExitStatus(returncode)]
          ELSE /\ stdout' = stdout
               /\ proc' = [proc EXCEPT !.returncodes = Append(@, returncode),
                                       !.pc = "for", !.k = @ + 1]
    /\ UNCHANGED <<scriptRest, files>>

(* line 39: the list is through, run_scripts returns and the runner ends  *)
(* with status 0                                                          *)
AllDone ==
    /\ proc.script = "_main" /\ proc.pc = "for" /\ proc.k > Len(SCRIPTS)
    /\ proc' = [proc EXCEPT !.pc = "exited", !.status = 0]
    /\ UNCHANGED <<scriptRest, files, stdout>>

RunnerNext ==
    \/ MissingScript
    \/ StartScript
    \/ ScriptExits
    \/ AllDone

RunnerSpec == RunnerInit /\ [][RunnerNext]_vars

(* the scripts started are the first ones of the list, in its order *)
StartedInOrder ==
    /\ Len(proc.started) <= Len(SCRIPTS)
    /\ \A n \in DOMAIN proc.started : proc.started[n] = SCRIPTS[n]

(* C30: run_scripts starts the scripts strictly in the order of SCRIPTS,   *)
(* one at a time, and starts a script only if every earlier one exited     *)
(* with status 0; at the first script that is missing (exit status 2) or   *)
(* exits non-zero (same exit status) the runner exits and no later script  *)
(* is started.                                                             *)
C30_OrderedFailFast ==
    /\ [](StartedInOrder
          /\ Len(proc.started) - Len(proc.returncodes) = (IF proc.pc = "wait" THEN 1 ELSE 0))
    /\ [][Len(proc'.started) > Len(proc.started) =>
             /\ Len(proc'.started) = Len(proc.started) + 1
             /\ Len(proc.returncodes) = Len(proc.started)
             /\ \A n \in DOMAIN proc.returncodes : proc.returncodes[n] = 0]_vars
    /\ [][(proc.pc = "wait" /\ proc'.pc # "wait"
              /\ proc'.returncodes[Len(proc'.returncodes)] # 0) =>
             /\ proc'.pc = "exited"
             /\ proc'.returncodes[Len(proc'.returncodes)] \in 1..255
                   => proc'.status = proc'.returncodes[Len(proc'.returncodes)]]_vars
    /\ [][(proc.pc = "for" /\ proc.k <= Len(SCRIPTS) /\ ~files[proc.k].exists) =>
             proc'.pc = "exited" /\ proc'.status = 2 /\ proc'.started = proc.started]_vars
    /\ [][proc.pc = "exited" => UNCHANGED proc]_vars

(* pull_qualtrics_data.py and the two scripts before and after it ran,    *)
(* anonymise_emails.py exited with 3: the runner exited with 3 and        *)
(* preprocess_entries.py was never started                                *)
C30_Witness ==
    /\ proc.script = "_main" /\ proc.pc = "exited"
    /\ proc.status = 3
    /\ proc.returncodes = <<0, 0, 0, 3>>
    /\ proc.started = SubSeq(SCRIPTS, 1, 4)

====
